---- MODULE Spec2Model ----
(***************************************************************************)
(* The event-sourced session synchronizer of OpenWork: the store           *)
(* primitives (upsertSession, upsertMessage, upsertPart, removePart), the  *)
(* event loop's dispatch, permission reconciliation, session switching,    *)
(* the model resolver and the health probe.                                *)
(*                                                                         *)
(* The repository holds two applications that share these primitives: the  *)
(* Chrome extension (src/unnamed/part_002, app = "ext") and the desktop    *)
(* app (src/unnamed/part_005, app = "desktop").  Their event loops differ, *)
(* so the variable app fixes which of the two a behaviour is about.        *)
(***************************************************************************)
EXTENDS Integers, Sequences, FiniteSets, TLC

VARIABLES
  app,                      \* "ext" | "desktop": which App() is running
  client,                   \* client(): Null or a client handle
  sessions,                 \* sessions(): Seq of Session
  sessionStatusById,        \* sessionStatusById(): id -> status
  selectedSessionId,        \* selectedSessionId(): Null or a session id
  messages,                 \* messages(): Seq of [info, parts]
  todos,                    \* todos(): the todo snapshot
  pendingPermissions,       \* pendingPermissions(): Seq of [id, v, receivedAt]
  now,                      \* Date.now()
  defaultModel,             \* defaultModel()
  modelPickerTarget,        \* modelPickerTarget(): "session" | "default"
  modelPickerOpen,          \* modelPickerOpen()
  sessionModelOverrideById, \* sessionModelOverrideById(): id -> ModelRef
  sessionModelById,         \* sessionModelById(): id -> ModelRef
  busy,                     \* busy()
  error,                    \* error(): Null or a message
  tasks,                    \* the async calls that are suspended at an await
  probe,                    \* the locals of a running waitForHealthy
  reader,                   \* the event stream and the locals of the subscribe loops reading it
  sseConnected,             \* sseConnected(): the live flag
  permissionReplyBusy,      \* permissionReplyBusy()
  sub,                      \* the subscription the SSE effect started for client()
  connectedVersion,         \* connectedVersion(): Null or the version the server reported
  lastEvt,                  \* history: the session event the loop handled last
  lastPayload,              \* history: per session id, the info of its last event
  seen,                     \* history: what the loop did with message and part events
  firstSeen,                \* history: per permission id, the time of the first refresh that returned it
  lastRefresh,              \* history: the last reconciliation (server list, list held before, time)
  fetched,                  \* history: what the last call of selectSession was answered
  returned                  \* history: what the last call of connectToServer returned

vars == <<app, client, sessions, sessionStatusById, selectedSessionId, messages,
          todos, pendingPermissions, now, defaultModel, modelPickerTarget,
          modelPickerOpen, sessionModelOverrideById, sessionModelById, busy, error, tasks,
          probe, reader, sseConnected, permissionReplyBusy, sub, connectedVersion,
          lastEvt, lastPayload, seen, firstSeen, lastRefresh, fetched, returned>>

sessVars  == <<sessions, sessionStatusById>>
txVars    == <<messages, todos>>
permVars  == <<pendingPermissions, now>>
pickerVars == <<modelPickerTarget, modelPickerOpen>>
modelVars == <<defaultModel, pickerVars, sessionModelOverrideById, sessionModelById>>
uiVars    == <<busy, error>>
connVars  == <<sseConnected, permissionReplyBusy, sub, connectedVersion>>
loopHist  == <<lastEvt, lastPayload, seen, firstSeen, lastRefresh, returned>>
histVars  == <<loopHist, fetched>>

----------------------------------------------------------------------------
(* Bounds *)

\* Date.now() runs from 0 to MaxTime.
MaxTime == 3

\* At most MaxTasks user actions (selectSession, sendPrompt) are suspended at
\* an await at a time.
MaxTasks == 2

\* Under SpecModel, where the models of two sessions, the picker and the
\* transcript all vary, at most MaxModelTasks of them.
MaxModelTasks == 1

\* An event stream holds at most MaxLines terminated lines, and a read that
\* does not take all that is left takes at most MaxChunk bytes.
MaxLines == 2
MaxChunk == 3

----------------------------------------------------------------------------
(* Values *)

Null == "null"

Apps == {"ext", "desktop"}

SessionIds == {"s1", "s2"}

MsgIds == {"m1", "m2", "m3"}

PartIds == {"p1", "p2"}

\* The server's messages: each message id belongs to one session.
SessionOf(mid) == IF mid = "m3" THEN "s2" ELSE "s1"

\* A missing model, status, event: a record no real value equals.
NoModel == [none |-> "model"]

NoEvent == [type |-> "none", properties |-> [none |-> "props"]]

NoSession == [none |-> "session"]

NoRefresh == [none |-> "refresh"]

NoProbe == [none |-> "probe"]
NoReader == [none |-> "reader"]

\* history: connectToServer has not been called, or has not returned yet.
NotReturned == [none |-> "returned"]
\* history: the value connectToServer returned.
Returned(value) == [value |-> value]

\* history: no call of selectSession yet; then the session the last call
\* was made for, the history session.messages answered (history, once
\* hasHistory), the snapshot session.todo answered (snapshot, once
\* hasSnapshot) and the list permission.list answered (list, once hasList).
NoFetch == [sessionID |-> Null, hasHistory |-> FALSE, history |-> <<>>,
            hasSnapshot |-> FALSE, snapshot |-> <<>>, hasList |-> FALSE, list |-> <<>>]

\* The subscription of the SSE effect: none while client() is null; else
\* the client it was started for, where its async function stands, and
\* whether the effect's cleanup has run (the abort signal, and in the
\* desktop application the cancelled flag).
NoSub == [pc |-> "none", client |-> Null, cancelled |-> FALSE]
Subscribing(c) == [pc |-> "subscribing", client |-> c, cancelled |-> FALSE]
Reading(c) == [pc |-> "reading", client |-> c, cancelled |-> FALSE]


PermIds == {"perm1", "perm2"}

ModelRefs == { [providerID |-> "anthropic", modelID |-> "claude"],
               [providerID |-> "openai", modelID |-> "gpt-5"] }

\* const DEFAULT_MODEL
DEFAULT_MODEL == [providerID |-> "opencode", modelID |-> "gpt-5-nano"]

HasField(r, f) == f \in DOMAIN r

\* list.findIndex((x) => x.id === id), 1-based; 0 stands for -1.
IndexOfId(list, id) ==
  IF \E i \in 1..Len(list) : list[i].id = id
  THEN CHOOSE i \in 1..Len(list) : list[i].id = id /\ \A j \in 1..(i - 1) : list[j].id # id
  ELSE 0

\* list.findIndex((m) => m.info.id === id), 1-based; 0 stands for -1.
IndexOfMessage(list, id) ==
  IF \E i \in 1..Len(list) : list[i].info.id = id
  THEN CHOOSE i \in 1..Len(list) :
         list[i].info.id = id /\ \A j \in 1..(i - 1) : list[j].info.id # id
  ELSE 0

----------------------------------------------------------------------------
(* StateStore primitives *)

upsertSession_NoReplace(list, next) == Append(list, next)

upsertSession_MovesToEnd(list, next) ==
  Append(SelectSeq(list, LAMBDA x : x.id # next.id), next)

upsertSession(list, next) ==
  LET idx == IndexOfId(list, next.id)
  IN IF idx = 0 THEN Append(list, next)
     ELSE [list EXCEPT ![idx] = next]

upsertMessage_ResetsParts(list, nextInfo) ==
  LET idx == IndexOfMessage(list, nextInfo.id)
  IN IF idx = 0 THEN Append(list, [info |-> nextInfo, parts |-> <<>>])
     ELSE [list EXCEPT ![idx] = [info |-> nextInfo, parts |-> <<>>]]

upsertMessage_MovesToEnd(list, nextInfo) ==
  LET idx == IndexOfMessage(list, nextInfo.id)
  IN IF idx = 0 THEN Append(list, [info |-> nextInfo, parts |-> <<>>])
     ELSE Append(SubSeq(list, 1, idx - 1) \o SubSeq(list, idx + 1, Len(list)),
                 [info |-> nextInfo, parts |-> list[idx].parts])

upsertMessage(list, nextInfo) ==
  LET idx == IndexOfMessage(list, nextInfo.id)
  IN IF idx = 0 THEN Append(list, [info |-> nextInfo, parts |-> <<>>])
     ELSE [list EXCEPT ![idx] = [info |-> nextInfo, parts |-> list[idx].parts]]

upsertPart_AdoptsOrphan(list, nextPart) ==
  LET msgIdx == IndexOfMessage(list, nextPart.messageID)
  IN IF msgIdx = 0
     THEN Append(list, [info |-> [id |-> nextPart.messageID, sessionID |-> nextPart.sessionID,
                                  role |-> "assistant", model |-> NoModel],
                        parts |-> <<nextPart>>])
     ELSE LET msg     == list[msgIdx]
              partIdx == IndexOfId(msg.parts, nextPart.id)
              parts   == IF partIdx = 0 THEN Append(msg.parts, nextPart)
                         ELSE [msg.parts EXCEPT ![partIdx] = nextPart]
          IN [list EXCEPT ![msgIdx] = [info |-> msg.info, parts |-> parts]]

upsertPart_AlwaysAppends(list, nextPart) ==
  LET msgIdx == IndexOfMessage(list, nextPart.messageID)
  IN IF msgIdx = 0 THEN list
     ELSE [list EXCEPT ![msgIdx] = [info |-> list[msgIdx].info,
                                    parts |-> Append(list[msgIdx].parts, nextPart)]]

upsertPart_NewestFirst(list, nextPart) ==
  LET msgIdx == IndexOfMessage(list, nextPart.messageID)
  IN IF msgIdx = 0 THEN list
     ELSE LET msg     == list[msgIdx]
              partIdx == IndexOfId(msg.parts, nextPart.id)
              parts   == IF partIdx = 0 THEN <<nextPart>> \o msg.parts
                         ELSE [msg.parts EXCEPT ![partIdx] = nextPart]
          IN [list EXCEPT ![msgIdx] = [info |-> msg.info, parts |-> parts]]

upsertPart_FirstMessage(list, nextPart) ==
  LET found  == IndexOfMessage(list, nextPart.messageID)
      msgIdx == IF found = 0 /\ list # <<>> THEN 1 ELSE found
  IN IF msgIdx = 0 THEN list
     ELSE LET msg     == list[msgIdx]
              partIdx == IndexOfId(msg.parts, nextPart.id)
              parts   == IF partIdx = 0 THEN Append(msg.parts, nextPart)
                         ELSE [msg.parts EXCEPT ![partIdx] = nextPart]
          IN [list EXCEPT ![msgIdx] = [info |-> msg.info, parts |-> parts]]

upsertPart(list, nextPart) ==
  LET msgIdx == IndexOfMessage(list, nextPart.messageID)
  IN IF msgIdx = 0 THEN list
     ELSE LET msg     == list[msgIdx]
              partIdx == IndexOfId(msg.parts, nextPart.id)
              parts   == IF partIdx = 0 THEN Append(msg.parts, nextPart)
                         ELSE [msg.parts EXCEPT ![partIdx] = nextPart]
          IN [list EXCEPT ![msgIdx] = [info |-> msg.info, parts |-> parts]]

removePart_ClearsParts(list, messageID, partID) ==
  LET msgIdx == IndexOfMessage(list, messageID)
  IN IF msgIdx = 0 THEN list
     ELSE IF \A k \in 1..Len(list[msgIdx].parts) : list[msgIdx].parts[k].id # partID
     THEN list
     ELSE [list EXCEPT ![msgIdx] = [info |-> list[msgIdx].info, parts |-> <<>>]]

removePart(list, messageID, partID) ==
  LET msgIdx == IndexOfMessage(list, messageID)
  IN IF msgIdx = 0 THEN list
     ELSE [list EXCEPT ![msgIdx] =
             [info |-> list[msgIdx].info,
              parts |-> SelectSeq(list[msgIdx].parts, LAMBDA p : p.id # partID)]]

normalizeSessionStatus_Unknown(status) ==
  IF status = "none" THEN "idle"
  ELSE IF status = "busy" THEN "running"
  ELSE IF status = "retry" THEN "retry"
  ELSE IF status = "idle" THEN "idle"
  ELSE "unknown"

\* status is the event's nested status object; "none" stands for a missing one.
normalizeSessionStatus(status) ==
  IF status = "none" THEN "idle"
  ELSE IF status = "busy" THEN "running"
  ELSE IF status = "retry" THEN "retry"
  ELSE IF status = "idle" THEN "idle"
  ELSE "idle"

modelFromUserMessage(info) ==
  IF info.role # "user" THEN NoModel
  ELSE IF info.model = NoModel THEN NoModel
  ELSE info.model

RECURSIVE lastUserModelFromMessages(_)
lastUserModelFromMessages(list) ==
  IF list = <<>> THEN NoModel
  ELSE LET model == modelFromUserMessage(list[Len(list)].info)
       IN IF model # NoModel THEN model
          ELSE lastUserModelFromMessages(SubSeq(list, 1, Len(list) - 1))

----------------------------------------------------------------------------
(* Records *)

\* { ...f, [k]: v }
Put(f, k, v) == [x \in (DOMAIN f) \cup {k} |-> IF x = k THEN v ELSE f[x]]

\* const copy = { ...f }; delete copy[k]
Del(f, k) == [x \in (DOMAIN f) \ {k} |-> f[x]]

EmptyMap == [x \in {} |-> Null]

\* The entries of list with the given id, in order.
WithId(list, id) == SelectSeq(list, LAMBDA x : x.id = id)

----------------------------------------------------------------------------
(* Inputs: the events the server sends *)

\* The type of a nested status object: one of the three the server defines,
\* another one, or "none" for a payload without a status object.
StatusTypes == {"busy", "retry", "idle", "other", "none"}

\* Session payloads; status is the type of the nested status object.
SessionInfos == [id : SessionIds, title : {"t1", "t2"}, status : StatusTypes]

\* session.deleted events; the last one carries no info.
SessionDeletedEvents ==
  { [type |-> "session.deleted", properties |-> [info |-> i]] :
      i \in {x \in SessionInfos : x.title = "t1" /\ x.status = "none"} }
  \cup { [type |-> "session.deleted", properties |-> [other |-> "x"]] }

\* session.status and session.idle events; the last of each carries no
\* sessionID.
SessionStatusEvents ==
  { [type |-> "session.status", properties |-> [sessionID |-> id, status |-> st]] :
      id \in SessionIds, st \in StatusTypes }
  \cup { [type |-> "session.idle", properties |-> [sessionID |-> id]] : id \in SessionIds }
  \cup { [type |-> t, properties |-> [other |-> "x"]] : t \in {"session.status", "session.idle"} }

\* Session events; the last one carries no info.
SessionEvents ==
  { [type |-> t, properties |-> [info |-> i]] :
      t \in {"session.created", "session.updated"}, i \in SessionInfos }
  \cup { [type |-> "session.updated", properties |-> [other |-> "x"]] }

\* Message payloads: a user message may carry a model reference.
MsgInfos ==
  { [id |-> m, sessionID |-> SessionOf(m), role |-> "user", model |-> mod] :
      m \in MsgIds, mod \in ModelRefs \cup {NoModel} }
  \cup { [id |-> m, sessionID |-> SessionOf(m), role |-> "assistant", model |-> NoModel] :
      m \in MsgIds }

\* The message payloads of the transcript specification: one user and one
\* assistant variant per id.
TranscriptInfos ==
  { i \in MsgInfos : i.role = "user" => i.model = [providerID |-> "openai", modelID |-> "gpt-5"] }

Parts ==
  { [id |-> p, messageID |-> m, sessionID |-> SessionOf(m), type |-> "text", text |-> t] :
      p \in PartIds, m \in MsgIds, t \in {"hi", "ho"} }

\* Message events, in both applications' type names; the last carries no info.
MessageEvents ==
  { [type |-> t, properties |-> [info |-> i]] :
      t \in {"message.created", "message.updated"}, i \in TranscriptInfos }
  \cup { [type |-> "message.updated", properties |-> [other |-> "x"]] }

\* Part events: the extension reads properties.info, the desktop app
\* properties.part.
PartEvents ==
  { [type |-> t, properties |-> [info |-> p]] :
      t \in {"message.part.created", "message.part.updated"}, p \in Parts }
  \cup { [type |-> "message.part.updated", properties |-> [part |-> p]] : p \in Parts }

RemovalEvents ==
  { [type |-> "message.part.deleted", properties |-> [messageID |-> m, partID |-> p]] :
      m \in MsgIds, p \in PartIds }
  \cup { [type |-> "message.part.removed",
          properties |-> [sessionID |-> SessionOf(m), messageID |-> m, partID |-> p]] :
      m \in MsgIds, p \in PartIds }
  \cup { [type |-> "message.removed",
          properties |-> [sessionID |-> SessionOf(m), messageID |-> m]] : m \in MsgIds }

\* A permission request as permission.list() returns it.
ServerPermissions == [id : PermIds, sessionID : {"s1"}, patterns : {"a", "b"}]

\* The lists permission.list() can return: requests with distinct ids, in
\* either order.
PermissionLists ==
  {<<>>}
  \cup { <<p>> : p \in ServerPermissions }
  \cup { pq \in { <<p, q>> : p \in ServerPermissions, q \in ServerPermissions } :
           pq[1].id # pq[2].id }

\* Permission events, in both applications' type names.
PermissionEvents ==
  { [type |-> t, properties |-> [id |-> "perm1"]] :
      t \in {"permission.created", "permission.updated", "permission.deleted",
             "permission.asked", "permission.replied"} }

\* The model the user picks here: the second of ZEN_MODEL_OPTIONS (the
\* first is DEFAULT_MODEL).
PickerOptions == { [providerID |-> "opencode", modelID |-> "big-pickle"] }

\* A stored message without parts, as session.messages() returns it here.
Bare(info) == [info |-> info, parts |-> <<>>]

UserInfo(m, mod) == [id |-> m, sessionID |-> SessionOf(m), role |-> "user", model |-> mod]

AssistantInfo(m) == [id |-> m, sessionID |-> SessionOf(m), role |-> "assistant", model |-> NoModel]

\* The histories session.messages({sessionID}) can return: messages of that
\* session only.
ServerHistories(sessionID) ==
  IF sessionID = "s1"
  THEN { <<>>,
         << Bare(UserInfo("m1", NoModel)) >>,
         << Bare(UserInfo("m1", [providerID |-> "anthropic", modelID |-> "claude"])),
            Bare(AssistantInfo("m2")) >> }
  ELSE { <<>>,
         << Bare(UserInfo("m3", [providerID |-> "openai", modelID |-> "gpt-5"])) >> }

\* The snapshots session.todo({sessionID}) can return; content names the
\* session the todo belongs to.
ServerTodos(sessionID) ==
  { <<>>,
    << [id |-> "t1", content |-> sessionID, status |-> "pending", priority |-> "high"] >> }

\* Todo events: the extension re-fetches on todo.created/updated/deleted,
\* the desktop app takes the snapshot that todo.updated carries.
TodoEvents ==
  { [type |-> t, properties |-> [sessionID |-> sid, todos |-> snapshot]] :
      t \in {"todo.created", "todo.updated", "todo.deleted"},
      sid \in SessionIds,
      snapshot \in { << [id |-> "t1", content |-> x, status |-> "pending", priority |-> "high"] >> :
                       x \in SessionIds } }

----------------------------------------------------------------------------
(* Permission reconciliation *)

\* byId.get(id): new Map(current.map((p) => [p.id, p])) keeps the last entry of an id.
ById(current, id) ==
  current[CHOOSE j \in 1..Len(current) :
            current[j].id = id /\ \A k \in (j + 1)..Len(current) : current[k].id # id]

reconcile_LastSeen(current, list, t) ==
  [i \in 1..Len(list) |->
     [id |-> list[i].id, sessionID |-> list[i].sessionID, patterns |-> list[i].patterns,
      receivedAt |-> t]]

\* The setter of refreshPendingPermissions:
\* list.map((p) => ({ ...p, receivedAt: byId.get(p.id)?.receivedAt ?? now }))
reconcile(current, list, t) ==
  [i \in 1..Len(list) |->
     [id |-> list[i].id, sessionID |-> list[i].sessionID, patterns |-> list[i].patterns,
      receivedAt |-> IF \E j \in 1..Len(current) : current[j].id = list[i].id
                     THEN ById(current, list[i].id).receivedAt
                     ELSE t]]

\* history: a refresh reconciled list at time now; ids it returned for the
\* first time get now as their first-seen time.
Refreshed(list) ==
  /\ lastRefresh' = [list |-> list, before |-> pendingPermissions, at |-> now]
  /\ firstSeen' = [id \in (DOMAIN firstSeen) \cup {list[i].id : i \in 1..Len(list)} |->
                     IF id \in DOMAIN firstSeen THEN firstSeen[id] ELSE now]

\* Time passes.
Tick ==
  /\ now < MaxTime
  /\ \E t \in (now + 1)..MaxTime : now' = t
  /\ UNCHANGED <<app, client, sessVars, selectedSessionId, txVars, pendingPermissions,
                 modelVars, uiVars, tasks, probe, reader, connVars, histVars>>

----------------------------------------------------------------------------
(* The event loop *)

\* The loop runs while client() is set (the SSE createEffect), and handles
\* the next event once the re-fetch it awaits, if any, has settled.
LoopRuns ==
  /\ client # Null
  /\ sub.pc = "reading" /\ ~sub.cancelled
  /\ \A t \in tasks : t.op \notin {"loop.permissions", "loop.todo"}

\* history: the loop has handled the session event evt; the bit tells two
\* handlings of one event apart.  lastPayload holds, per id, the payload of
\* the last session.created/session.updated since the id was last deleted.
Handled(evt) == [evt |-> evt, bit |-> 1 - lastEvt.bit]

\* session.created / session.updated
OnSessionEvent(evt) ==
  /\ LoopRuns
  /\ evt.type \in {"session.created", "session.updated"}
  /\ lastEvt' = Handled(evt)
  /\ IF HasField(evt.properties, "info")
     THEN LET info == evt.properties.info
          IN /\ sessions' = upsertSession(sessions, info)
             /\ sessionStatusById' =
                  IF app = "ext"
                  THEN Put(sessionStatusById, info.id, normalizeSessionStatus(info.status))
                  ELSE sessionStatusById
             /\ lastPayload' = [lastPayload EXCEPT ![info.id] = info]
     ELSE UNCHANGED <<sessions, sessionStatusById, lastPayload>>
  /\ UNCHANGED <<app, client, selectedSessionId, txVars, permVars, modelVars, uiVars,
                 tasks, probe, reader, connVars, seen, firstSeen, lastRefresh, fetched,
                 returned>>

\* session.deleted (desktop application)
OnSessionDeleted(evt) ==
  /\ LoopRuns
  /\ app = "desktop"
  /\ evt.type = "session.deleted"
  /\ lastEvt' = Handled(evt)
  /\ IF HasField(evt.properties, "info")
     THEN LET info == evt.properties.info
          IN /\ sessions' = SelectSeq(sessions, LAMBDA x : x.id # info.id)
             /\ lastPayload' = [lastPayload EXCEPT ![info.id] = NoSession]
     ELSE UNCHANGED <<sessions, lastPayload>>
  /\ UNCHANGED <<app, client, sessionStatusById, selectedSessionId, txVars, permVars,
                 modelVars, uiVars, tasks, probe, reader, connVars, seen, firstSeen,
                 lastRefresh, fetched, returned>>

\* session.status and session.idle (desktop application)
OnSessionStatus(evt) ==
  /\ LoopRuns
  /\ app = "desktop"
  /\ evt.type \in {"session.status", "session.idle"}
  /\ lastEvt' = Handled(evt)
  /\ sessionStatusById' =
       IF HasField(evt.properties, "sessionID")
       THEN Put(sessionStatusById, evt.properties.sessionID,
                IF evt.type = "session.idle" THEN "idle"
                ELSE normalizeSessionStatus(evt.properties.status))
       ELSE sessionStatusById
  /\ UNCHANGED <<app, client, sessions, selectedSessionId, txVars, permVars, modelVars,
                 uiVars, tasks, probe, reader, connVars, lastPayload, seen, firstSeen,
                 lastRefresh, fetched, returned>>

\* The event types each loop upserts a message / a part on, and the field
\* of properties that carries the part.
MessageUpsertTypes ==
  IF app = "ext" THEN {"message.created", "message.updated"} ELSE {"message.updated"}

PartUpsertTypes ==
  IF app = "ext" THEN {"message.part.created", "message.part.updated"}
  ELSE {"message.part.updated"}

PartField == IF app = "ext" THEN "info" ELSE "part"

PartRemovalType == IF app = "ext" THEN "message.part.deleted" ELSE "message.part.removed"

\* history: a message event was handled, for the selected session (msgs) or
\* for another one or none (skipped).
SeenMessage(info) ==
  IF info.sessionID = selectedSessionId
  THEN [seen EXCEPT !.msgs = @ \cup {info.id}]
  ELSE [seen EXCEPT !.skipped = @ \cup {info.id}]

\* history: a part event for a message of the selected session was handled:
\* before the message event of its message (dropped), or after it (after
\* holds the part of the last such event; late tells that an earlier event
\* for the part had been dropped).  Nothing is recorded for a message that a
\* removal event has named.
SeenPart(part) ==
  LET key == <<part.messageID, part.id>>
  IN IF part.sessionID # selectedSessionId \/ part.messageID \in seen.removed THEN seen
     ELSE IF part.messageID \in seen.msgs
     THEN [seen EXCEPT !.after = Put(@, key, part),
                       !.dropped = @ \ {key},
                       !.late = IF key \in seen.dropped THEN @ \cup {key} ELSE @]
     ELSE [seen EXCEPT !.dropped = @ \cup {key}]

\* history: a removal event named this message of the selected session (or
\* one of its parts); what was recorded of its parts is forgotten.
SeenRemoval(messageID) ==
  IF SessionOf(messageID) = selectedSessionId
  THEN [seen EXCEPT !.removed = @ \cup {messageID},
                    !.dropped = {k \in @ : k[1] # messageID},
                    !.late = {k \in @ : k[1] # messageID},
                    !.after = [k \in {x \in DOMAIN @ : x[1] # messageID} |-> @[k]]]
  ELSE seen

OnMessageEvent_AnySession(evt) ==
  /\ LoopRuns
  /\ evt.type \in MessageUpsertTypes
  /\ IF HasField(evt.properties, "info")
     THEN LET info  == evt.properties.info
              model == modelFromUserMessage(info)
          IN /\ IF app = "desktop" /\ model # NoModel
                THEN /\ sessionModelById' = Put(sessionModelById, info.sessionID, model)
                     /\ sessionModelOverrideById' = Del(sessionModelOverrideById, info.sessionID)
                ELSE UNCHANGED <<sessionModelById, sessionModelOverrideById>>
             /\ messages' = upsertMessage(messages, info)
             /\ seen' = SeenMessage(info)
     ELSE UNCHANGED <<sessionModelById, sessionModelOverrideById, messages, seen>>
  /\ UNCHANGED <<app, client, sessVars, selectedSessionId, todos, permVars, defaultModel,
                 pickerVars, uiVars, tasks, probe, reader, connVars, lastEvt, lastPayload, firstSeen,
                 lastRefresh, fetched, returned>>

\* message.created / message.updated
OnMessageEvent(evt) ==
  /\ LoopRuns
  /\ evt.type \in MessageUpsertTypes
  /\ IF HasField(evt.properties, "info")
     THEN LET info  == evt.properties.info
              model == modelFromUserMessage(info)
          IN /\ IF app = "desktop" /\ model # NoModel
                THEN /\ sessionModelById' = Put(sessionModelById, info.sessionID, model)
                     /\ sessionModelOverrideById' = Del(sessionModelOverrideById, info.sessionID)
                ELSE UNCHANGED <<sessionModelById, sessionModelOverrideById>>
             /\ messages' = IF selectedSessionId # Null /\ info.sessionID = selectedSessionId
                            THEN upsertMessage(messages, info)
                            ELSE messages
             /\ seen' = SeenMessage(info)
     ELSE UNCHANGED <<sessionModelById, sessionModelOverrideById, messages, seen>>
  /\ UNCHANGED <<app, client, sessVars, selectedSessionId, todos, permVars, defaultModel,
                 pickerVars, uiVars, tasks, probe, reader, connVars, lastEvt, lastPayload, firstSeen,
                 lastRefresh, fetched, returned>>

\* message.part.created / message.part.updated
OnPartEvent(evt) ==
  /\ LoopRuns
  /\ evt.type \in PartUpsertTypes
  /\ IF HasField(evt.properties, PartField)
     THEN LET part == evt.properties[PartField]
          IN /\ messages' =
                  IF app = "ext" \/ (selectedSessionId # Null /\ part.sessionID = selectedSessionId)
                  THEN upsertPart(messages, part)
                  ELSE messages
             /\ seen' = SeenPart(part)
     ELSE UNCHANGED <<messages, seen>>
  /\ UNCHANGED <<app, client, sessVars, selectedSessionId, todos, permVars, modelVars,
                 uiVars, tasks, probe, reader, connVars, lastEvt, lastPayload, firstSeen,
                 lastRefresh, fetched, returned>>

\* message.part.deleted (extension) / message.part.removed (desktop)
OnPartRemoved(evt) ==
  /\ LoopRuns
  /\ evt.type = PartRemovalType
  /\ LET props == evt.properties
     IN /\ messages' =
             IF app = "ext" \/ (selectedSessionId # Null /\ props.sessionID = selectedSessionId)
             THEN removePart(messages, props.messageID, props.partID)
             ELSE messages
        /\ seen' = SeenRemoval(props.messageID)
  /\ UNCHANGED <<app, client, sessVars, selectedSessionId, todos, permVars, modelVars,
                 uiVars, tasks, probe, reader, connVars, lastEvt, lastPayload, firstSeen,
                 lastRefresh, fetched, returned>>

\* message.removed (desktop only)
OnMessageRemoved(evt) ==
  /\ LoopRuns
  /\ app = "desktop"
  /\ evt.type = "message.removed"
  /\ LET props == evt.properties
     IN /\ messages' =
             IF selectedSessionId # Null /\ props.sessionID = selectedSessionId
             THEN SelectSeq(messages, LAMBDA m : m.info.id # props.messageID)
             ELSE messages
        /\ seen' = SeenRemoval(props.messageID)
  /\ UNCHANGED <<app, client, sessVars, selectedSessionId, todos, permVars, modelVars,
                 uiVars, tasks, probe, reader, connVars, lastEvt, lastPayload, firstSeen,
                 lastRefresh, fetched, returned>>

PermissionTypes ==
  IF app = "ext" THEN {"permission.created", "permission.updated", "permission.deleted"}
  ELSE {"permission.asked", "permission.replied"}

\* permission.*: await refreshPendingPermissions(c); the loop is suspended
\* at c.permission.list().
OnPermissionEvent(evt) ==
  /\ LoopRuns
  /\ evt.type \in PermissionTypes
  /\ tasks' = tasks \cup {[op |-> "loop.permissions", client |-> client]}
  /\ UNCHANGED <<app, client, sessVars, selectedSessionId, txVars, permVars, modelVars,
                 uiVars, probe, reader, connVars, histVars>>

\* c.permission.list() of the loop's refresh resolves with list: the setter runs.
LoopPermissionsResolved(list) ==
  /\ \E t \in tasks :
       /\ t.op = "loop.permissions"
       /\ tasks' = tasks \ {t}
  /\ pendingPermissions' = reconcile(pendingPermissions, list, now)
  /\ Refreshed(list)
  /\ UNCHANGED <<app, client, sessVars, selectedSessionId, txVars, now, modelVars,
                 uiVars, probe, reader, connVars, lastEvt, lastPayload, seen, fetched,
                 returned>>

\* c.permission.list() of the loop's refresh fails: catch { /* ignore */ }.
LoopPermissionsFailed ==
  /\ \E t \in tasks :
       /\ t.op = "loop.permissions"
       /\ tasks' = tasks \ {t}
  /\ UNCHANGED <<app, client, sessVars, selectedSessionId, txVars, permVars, modelVars,
                 uiVars, probe, reader, connVars, histVars>>

TodoTypes ==
  IF app = "ext" THEN {"todo.created", "todo.updated", "todo.deleted"} ELSE {"todo.updated"}

\* todo.*: the extension awaits session.todo for the session selected now
\* (the loop is suspended at the call); the desktop app sets the todos the
\* event carries when they are the selected session's.
OnTodoEvent(evt) ==
  /\ LoopRuns
  /\ evt.type \in TodoTypes
  /\ IF app = "ext"
     THEN /\ tasks' = IF selectedSessionId # Null
                      THEN tasks \cup {[op |-> "loop.todo", client |-> client,
                                        sessionID |-> selectedSessionId]}
                      ELSE tasks
          /\ UNCHANGED todos
     ELSE /\ todos' = IF selectedSessionId # Null /\ evt.properties.sessionID = selectedSessionId
                      THEN evt.properties.todos
                      ELSE todos
          /\ UNCHANGED tasks
  /\ UNCHANGED <<app, client, sessVars, selectedSessionId, messages, permVars, modelVars,
                 uiVars, probe, reader, connVars, histVars>>

\* clientRef.session.todo({ sessionID }) of the loop resolves: setTodos(...).
LoopTodoResolved(t, snapshot) ==
  /\ t \in tasks /\ t.op = "loop.todo"
  /\ todos' = snapshot
  /\ tasks' = tasks \ {t}
  /\ UNCHANGED <<app, client, sessVars, selectedSessionId, messages, permVars, modelVars,
                 uiVars, probe, reader, connVars, histVars>>

\* clientRef.session.todo fails: catch { setTodos([]) }.
LoopTodoFailed(t) ==
  /\ t \in tasks /\ t.op = "loop.todo"
  /\ todos' = <<>>
  /\ tasks' = tasks \ {t}
  /\ UNCHANGED <<app, client, sessVars, selectedSessionId, messages, permVars, modelVars,
                 uiVars, probe, reader, connVars, histVars>>

\* The types the loop of this application has a branch for.
HandledTypes ==
  IF app = "ext"
  THEN {"session.created", "session.updated", "message.created", "message.updated",
        "message.part.created", "message.part.updated", "message.part.deleted",
        "permission.created", "permission.updated", "permission.deleted",
        "todo.created", "todo.updated", "todo.deleted"}
  ELSE {"server.connected", "session.updated", "session.created", "session.deleted",
        "session.status", "session.idle", "message.updated", "message.removed",
        "message.part.updated", "message.part.removed", "todo.updated",
        "permission.asked", "permission.replied"}

SessionEventTypes ==
  {"session.created", "session.updated", "session.deleted", "session.status", "session.idle"}

\* history: the types of the events that lastEvt records.
LoggedTypes == SessionEventTypes \cup {"server.connected"}

\* An event of a type the loop has no branch for changes no signal of the
\* store.
OnOtherEvent(evt) ==
  /\ LoopRuns
  /\ evt.type \notin HandledTypes
  /\ lastEvt' = IF evt.type \in LoggedTypes THEN Handled(evt) ELSE lastEvt
  /\ UNCHANGED <<app, client, sessVars, selectedSessionId, txVars, permVars, modelVars,
                 uiVars, tasks, probe, reader, connVars, lastPayload, seen, firstSeen,
                 lastRefresh, fetched, returned>>

----------------------------------------------------------------------------
(* ModelResolver *)

selectedSessionModel_KnownFirst ==
  LET id == selectedSessionId
  IN IF id = Null THEN defaultModel
     ELSE IF id \in DOMAIN sessionModelById THEN sessionModelById[id]
     ELSE IF id \in DOMAIN sessionModelOverrideById THEN sessionModelOverrideById[id]
     ELSE IF lastUserModelFromMessages(messages) # NoModel
          THEN lastUserModelFromMessages(messages)
     ELSE defaultModel

\* const selectedSessionModel = createMemo(...)
selectedSessionModel ==
  LET id == selectedSessionId
  IN IF id = Null THEN defaultModel
     ELSE IF id \in DOMAIN sessionModelOverrideById THEN sessionModelOverrideById[id]
     ELSE IF id \in DOMAIN sessionModelById THEN sessionModelById[id]
     ELSE IF lastUserModelFromMessages(messages) # NoModel
          THEN lastUserModelFromMessages(messages)
     ELSE defaultModel

openSessionModelPicker ==
  /\ modelPickerTarget' = "session"
  /\ modelPickerOpen' = TRUE
  /\ UNCHANGED <<app, client, sessVars, selectedSessionId, txVars, permVars, defaultModel,
                 sessionModelOverrideById, sessionModelById, uiVars, tasks, probe, reader, connVars, histVars>>

openDefaultModelPicker ==
  /\ modelPickerTarget' = "default"
  /\ modelPickerOpen' = TRUE
  /\ UNCHANGED <<app, client, sessVars, selectedSessionId, txVars, permVars, defaultModel,
                 sessionModelOverrideById, sessionModelById, uiVars, tasks, probe, reader, connVars, histVars>>

\* The picker's close buttons: setModelPickerOpen(false).
closeModelPicker ==
  /\ modelPickerOpen
  /\ modelPickerOpen' = FALSE
  /\ UNCHANGED <<app, client, sessVars, selectedSessionId, txVars, permVars, defaultModel,
                 modelPickerTarget, sessionModelOverrideById, sessionModelById, uiVars,
                 tasks, probe, reader, connVars, histVars>>

\* A click on an option of the open picker.
applyModelSelection(next) ==
  /\ modelPickerOpen
  /\ modelPickerOpen' = FALSE
  /\ IF modelPickerTarget = "default"
     THEN /\ defaultModel' = next
          /\ UNCHANGED sessionModelOverrideById
     ELSE /\ sessionModelOverrideById' =
               IF selectedSessionId = Null THEN sessionModelOverrideById
               ELSE Put(sessionModelOverrideById, selectedSessionId, next)
          /\ UNCHANGED defaultModel
  /\ UNCHANGED <<app, client, sessVars, selectedSessionId, txVars, permVars,
                 modelPickerTarget, sessionModelById, uiVars, tasks, probe, reader, connVars, histVars>>

----------------------------------------------------------------------------
(* User actions that await the server.  A task is the continuation of one   *)
(* call: its locals and the await it is suspended at (pc).                  *)

UserTasks == {t \in tasks : t.op \in {"select", "send"}}

\* The number that tells this call's task from another call's.
FreeTask == CHOOSE n \in 1..MaxTasks : n \notin {t.n : t \in UserTasks}

CanStartTask == Cardinality(UserTasks) < MaxTasks

\* The task moves on to its next await.
Moved(t, pc) == (tasks \ {t}) \cup {[t EXCEPT !.pc = pc]}

\* selectSession(sessionID), up to its first await: a click on a session of the list.
selectSession(sessionID) ==
  /\ client # Null
  /\ CanStartTask
  /\ \E i \in 1..Len(sessions) : sessions[i].id = sessionID
  /\ selectedSessionId' = sessionID
  /\ error' = Null
  /\ tasks' = tasks \cup {[op |-> "select", n |-> FreeTask, client |-> client,
                           sessionID |-> sessionID, pc |-> "messages"]}
  /\ fetched' = [NoFetch EXCEPT !.sessionID = sessionID]
  /\ UNCHANGED <<app, client, sessVars, txVars, permVars, modelVars, busy, probe, reader, connVars, loopHist>>

SelectMessagesResolved_KeepsKnownModel(t, msgs) ==
  /\ t \in tasks /\ t.op = "select" /\ t.pc = "messages"
  /\ messages' = msgs
  /\ LET model == lastUserModelFromMessages(msgs)
     IN IF model # NoModel /\ t.sessionID \notin DOMAIN sessionModelById
        THEN /\ sessionModelById' = Put(sessionModelById, t.sessionID, model)
             /\ sessionModelOverrideById' = Del(sessionModelOverrideById, t.sessionID)
        ELSE UNCHANGED <<sessionModelById, sessionModelOverrideById>>
  /\ fetched' = [fetched EXCEPT !.hasHistory = TRUE, !.history = msgs]
  /\ tasks' = Moved(t, "todo")
  /\ UNCHANGED <<app, client, sessVars, selectedSessionId, todos, permVars, defaultModel,
                 pickerVars, uiVars, probe, reader, connVars, loopHist>>

\* c.session.messages({ sessionID }) resolves: setMessages(msgs), the
\* session's model is inferred from the history, then session.todo is called.
SelectMessagesResolved(t, msgs) ==
  /\ t \in tasks /\ t.op = "select" /\ t.pc = "messages"
  /\ messages' = msgs
  /\ LET model == lastUserModelFromMessages(msgs)
     IN IF model # NoModel
        THEN /\ sessionModelById' = Put(sessionModelById, t.sessionID, model)
             /\ sessionModelOverrideById' = Del(sessionModelOverrideById, t.sessionID)
        ELSE UNCHANGED <<sessionModelById, sessionModelOverrideById>>
  /\ tasks' = Moved(t, "todo")
  /\ fetched' = [fetched EXCEPT !.hasHistory = TRUE, !.history = msgs]
  /\ UNCHANGED <<app, client, sessVars, selectedSessionId, todos, permVars, defaultModel,
                 pickerVars, uiVars, probe, reader, connVars, loopHist>>

\* c.session.messages fails: unwrap throws and selectSession rejects.
SelectMessagesFailed(t) ==
  /\ t \in tasks /\ t.op = "select" /\ t.pc = "messages"
  /\ tasks' = tasks \ {t}
  /\ UNCHANGED <<app, client, sessVars, selectedSessionId, txVars, permVars, modelVars,
                 uiVars, probe, reader, connVars, histVars>>

\* c.session.todo({ sessionID }) resolves: setTodos(...), then refreshPendingPermissions(c).
SelectTodoResolved(t, snapshot) ==
  /\ t \in tasks /\ t.op = "select" /\ t.pc = "todo"
  /\ todos' = snapshot
  /\ tasks' = Moved(t, "permissions")
  /\ fetched' = [fetched EXCEPT !.hasSnapshot = TRUE, !.snapshot = snapshot]
  /\ UNCHANGED <<app, client, sessVars, selectedSessionId, messages, permVars, modelVars,
                 uiVars, probe, reader, connVars, loopHist>>

\* c.session.todo fails: catch { setTodos([]) }.
SelectTodoFailed(t) ==
  /\ t \in tasks /\ t.op = "select" /\ t.pc = "todo"
  /\ todos' = <<>>
  /\ tasks' = Moved(t, "permissions")
  /\ UNCHANGED <<app, client, sessVars, selectedSessionId, messages, permVars, modelVars,
                 uiVars, probe, reader, connVars, histVars>>

\* c.permission.list() of selectSession's refresh resolves: the setter runs.
SelectPermissionsResolved(t, list) ==
  /\ t \in tasks /\ t.op = "select" /\ t.pc = "permissions"
  /\ pendingPermissions' = reconcile(pendingPermissions, list, now)
  /\ Refreshed(list)
  /\ fetched' = [fetched EXCEPT !.hasList = TRUE, !.list = list]
  /\ tasks' = tasks \ {t}
  /\ UNCHANGED <<app, client, sessVars, selectedSessionId, txVars, now, modelVars, uiVars,
                 probe, reader, connVars, lastEvt, lastPayload, seen, returned>>

\* c.permission.list() fails: catch { /* ignore */ }.
SelectPermissionsFailed(t) ==
  /\ t \in tasks /\ t.op = "select" /\ t.pc = "permissions"
  /\ tasks' = tasks \ {t}
  /\ UNCHANGED <<app, client, sessVars, selectedSessionId, txVars, permVars, modelVars,
                 uiVars, probe, reader, connVars, histVars>>

\* sendPrompt(), up to its first await; the prompt text is not empty.  The
\* prompt input and the send button are disabled while busy().
sendPrompt ==
  /\ ~busy
  /\ client # Null
  /\ selectedSessionId # Null
  /\ CanStartTask
  /\ busy' = TRUE
  /\ error' = Null
  /\ tasks' = tasks \cup {[op |-> "send", n |-> FreeTask, client |-> client,
                           sessionID |-> selectedSessionId, model |-> selectedSessionModel,
                           pc |-> "prompt"]}
  /\ UNCHANGED <<app, client, sessVars, selectedSessionId, txVars, permVars, modelVars,
                 probe, reader, connVars, histVars>>

SendPromptResolved_KeepsOverride(t) ==
  /\ t \in tasks /\ t.op = "send" /\ t.pc = "prompt"
  /\ sessionModelById' = Put(sessionModelById, t.sessionID, t.model)
  /\ tasks' = Moved(t, "messages")
  /\ UNCHANGED <<app, client, sessVars, selectedSessionId, txVars, permVars, defaultModel,
                 pickerVars, sessionModelOverrideById, uiVars, probe, reader, connVars, lastEvt, lastPayload,
                 seen, firstSeen, lastRefresh, fetched, returned>>

\* c.session.prompt(...) resolves: the model it was sent with becomes the
\* session's last-known model and the session's override is deleted; then
\* session.messages is called.
SendPromptResolved(t) ==
  /\ t \in tasks /\ t.op = "send" /\ t.pc = "prompt"
  /\ sessionModelById' = Put(sessionModelById, t.sessionID, t.model)
  /\ sessionModelOverrideById' = Del(sessionModelOverrideById, t.sessionID)
  /\ tasks' = Moved(t, "messages")
  /\ UNCHANGED <<app, client, sessVars, selectedSessionId, txVars, permVars, defaultModel,
                 pickerVars, uiVars, probe, reader, connVars, lastEvt, lastPayload, seen, firstSeen,
                 lastRefresh, fetched, returned>>

\* session.prompt, session.messages or session.list fails with thrown, the
\* Error of unwrap or of fetch: catch { setError(e.message) } finally
\* { setBusy(false) }.
SendFailed(t, thrown) ==
  /\ t \in tasks /\ t.op = "send" /\ t.pc \in {"prompt", "messages", "sessions"}
  /\ error' = thrown.message
  /\ busy' = FALSE
  /\ tasks' = tasks \ {t}
  /\ UNCHANGED <<app, client, sessVars, selectedSessionId, txVars, permVars, modelVars,
                 probe, reader, connVars, histVars>>

\* c.session.messages({ sessionID }) of sendPrompt resolves: setMessages(msgs).
SendMessagesResolved(t, msgs) ==
  /\ t \in tasks /\ t.op = "send" /\ t.pc = "messages"
  /\ messages' = msgs
  /\ tasks' = Moved(t, "todo")
  /\ UNCHANGED <<app, client, sessVars, selectedSessionId, todos, permVars, modelVars,
                 uiVars, probe, reader, connVars, histVars>>

\* c.session.todo({ sessionID }) of sendPrompt resolves: setTodos(...).
SendTodoResolved(t, snapshot) ==
  /\ t \in tasks /\ t.op = "send" /\ t.pc = "todo"
  /\ todos' = snapshot
  /\ tasks' = Moved(t, "sessions")
  /\ UNCHANGED <<app, client, sessVars, selectedSessionId, messages, permVars, modelVars,
                 uiVars, probe, reader, connVars, histVars>>

\* c.session.todo of sendPrompt fails: catch { setTodos([]) }.
SendTodoFailed(t) ==
  /\ t \in tasks /\ t.op = "send" /\ t.pc = "todo"
  /\ todos' = <<>>
  /\ tasks' = Moved(t, "sessions")
  /\ UNCHANGED <<app, client, sessVars, selectedSessionId, messages, permVars, modelVars,
                 uiVars, probe, reader, connVars, histVars>>

\* loadSessions(c) of sendPrompt resolves: setSessions(list); finally { setBusy(false) }.
SendSessionsResolved(t, list) ==
  /\ t \in tasks /\ t.op = "send" /\ t.pc = "sessions"
  /\ sessions' = list
  /\ busy' = FALSE
  /\ tasks' = tasks \ {t}
  /\ UNCHANGED <<app, client, sessionStatusById, selectedSessionId, txVars, permVars,
                 modelVars, error, probe, reader, connVars, histVars>>

----------------------------------------------------------------------------
(* lib/opencode: unwrap and waitForHealthy.  probe is the call of           *)
(* waitForHealthy in progress: its options, its locals, the await it is     *)
(* suspended at (pc), what it returned or threw (outcome) and, as history,  *)
(* the answers its polls got (polls).                                       *)

\* The health payloads the server can answer with.
HealthPayloads ==
  { [healthy |-> TRUE, version |-> "1.0"],
    [healthy |-> TRUE, version |-> "1.1"],
    [healthy |-> FALSE, version |-> "1.0"] }

\* What client.global.health() can resolve with: data, or an error that is
\* an Error, a string (possibly empty) or another value.
HealthResults ==
  { [data |-> h] : h \in HealthPayloads }
    \cup { [error |-> [kind |-> "Error", message |-> "bad gateway"]],
           [error |-> [kind |-> "string", message |-> "starting"]],
           [error |-> [kind |-> "string", message |-> ""]],
           [error |-> [kind |-> "object", message |-> "{}"]] }

\* What client.global.health() can reject with: an Error, or a value that
\* is not an Error.
HealthRejections ==
  { [kind |-> "Error", message |-> "fetch failed"],
    [kind |-> "other", message |-> "x"] }

\* unwrap(result): the data, or the Error it throws.  message is the
\* error's message, the string itself, or the JSON text of the value.
unwrap(result) ==
  IF HasField(result, "data")
  THEN [returns |-> result.data]
  ELSE [throws |-> [kind |-> "Error",
                    message |-> IF result.error.message # ""
                                THEN result.error.message
                                ELSE "Unknown error"]]

restOfHealth ==
  <<app, client, sessVars, selectedSessionId, txVars, pendingPermissions, modelVars,
    uiVars, tasks, reader, connVars, histVars>>

HealthLoop_PollsAtDeadline(p) ==
  IF now - p.start <= p.timeoutMs
  THEN [p EXCEPT !.pc = "poll"]
  ELSE [p EXCEPT !.pc = "failed",
                 !.outcome = [throws |-> IF p.lastError # Null THEN p.lastError
                                         ELSE "Timed out waiting for server health"]]

\* The loop's test, then the throw that follows the loop.
HealthLoop(p) ==
  IF now - p.start < p.timeoutMs
  THEN [p EXCEPT !.pc = "poll"]
  ELSE [p EXCEPT !.pc = "failed",
                 !.outcome = [throws |-> IF p.lastError # Null THEN p.lastError
                                         ELSE "Timed out waiting for server health"]]

\* waitForHealthy(client, { timeoutMs, pollMs }), up to its first await.
waitForHealthy(timeoutMs, pollMs) ==
  /\ probe = NoProbe
  /\ probe' = HealthLoop([pc |-> "start", timeoutMs |-> timeoutMs, pollMs |-> pollMs,
                          start |-> now, lastError |-> Null, wake |-> now,
                          outcome |-> [none |-> "outcome"], polls |-> <<>>])
  /\ UNCHANGED <<now, restOfHealth>>

HealthFailed_KeepsFirst(p, message) ==
  [p EXCEPT !.pc = "sleep", !.wake = now + p.pollMs,
            !.lastError = IF p.lastError = Null THEN message ELSE p.lastError]

\* A failed attempt: lastError = ...; then setTimeout(resolve, pollMs).
HealthFailed(p, message) ==
  [p EXCEPT !.pc = "sleep", !.wake = now + p.pollMs, !.lastError = message]

\* client.global.health() resolves.
HealthResolved(result) ==
  /\ probe # NoProbe /\ probe.pc = "poll"
  /\ LET p == [probe EXCEPT !.polls = Append(@, [resolved |-> result])]
         r == unwrap(result)
     IN probe' = IF HasField(r, "returns")
                 THEN IF r.returns.healthy
                      THEN [p EXCEPT !.pc = "returned", !.outcome = [returns |-> r.returns]]
                      ELSE HealthFailed(p, "Server reported unhealthy")
                 ELSE HealthFailed(p, r.throws.message)
  /\ UNCHANGED <<now, restOfHealth>>

\* client.global.health() rejects: error instanceof Error ? error.message : "Unknown error".
HealthRejected(thrown) ==
  /\ probe # NoProbe /\ probe.pc = "poll"
  /\ LET p == [probe EXCEPT !.polls = Append(@, [rejected |-> thrown])]
     IN probe' = HealthFailed(p, IF thrown.kind = "Error" THEN thrown.message
                                 ELSE "Unknown error")
  /\ UNCHANGED <<now, restOfHealth>>

\* The timer of pollMs fires, and the loop tests the time again.
HealthPollTimer ==
  /\ probe # NoProbe /\ probe.pc = "sleep"
  /\ now >= probe.wake
  /\ probe' = HealthLoop(probe)
  /\ UNCHANGED <<now, restOfHealth>>

----------------------------------------------------------------------------
(* The extension's subscribe(): the read loop over the event stream.       *)
(* A byte is written as a string: an ASCII byte as its character, the two  *)
(* bytes of U+00E9 as "C3" and "A9".  A text is a sequence of characters.  *)

Utf8Lead == "C3"
Utf8Cont == "A9"

\* decoder.decode(value, { stream: true }): the characters the bytes of
\* value complete, and the lead byte left waiting for its continuation.
\* A byte that fits no sequence decodes to U+FFFD.
decode(d, value) ==
  LET bytes == d.pending \o value
      n == Len(bytes)
      marks == [i \in 1..n |->
                  IF bytes[i] = Utf8Lead
                  THEN IF i = n \/ bytes[i + 1] = Utf8Cont THEN "" ELSE "U+FFFD"
                  ELSE IF bytes[i] = Utf8Cont
                       THEN IF i > 1 /\ bytes[i - 1] = Utf8Lead THEN "U+00E9" ELSE "U+FFFD"
                       ELSE bytes[i]]
  IN [text |-> d.text \o SelectSeq(marks, LAMBDA c : c # ""),
      pending |-> IF n > 0 /\ bytes[n] = Utf8Lead THEN <<Utf8Lead>> ELSE <<>>]

\* buffer.split("\n"): the pieces between the newlines, at least one.
split(text) ==
  LET cuts == {i \in 1..Len(text) : text[i] = "\n"}
      cut(k) == IF k = 0 THEN 0
                ELSE IF k > Cardinality(cuts) THEN Len(text) + 1
                ELSE CHOOSE i \in cuts : Cardinality({j \in cuts : j <= i}) = k
  IN [k \in 1..(Cardinality(cuts) + 1) |-> SubSeq(text, cut(k - 1) + 1, cut(k) - 1)]

startsWith(text, prefix) ==
  Len(text) >= Len(prefix) /\ SubSeq(text, 1, Len(prefix)) = prefix

endsWith(text, suffix) ==
  Len(text) >= Len(suffix) /\ SubSeq(text, Len(text) - Len(suffix) + 1, Len(text)) = suffix

Whitespace == {" ", "\t", "\r", "\n"}

\* String.prototype.trim.
trim(text) ==
  LET keep == {i \in 1..Len(text) : text[i] \notin Whitespace}
  IN IF keep = {} THEN <<>>
     ELSE SubSeq(text, CHOOSE i \in keep : \A j \in keep : i <= j,
                       CHOOSE i \in keep : \A j \in keep : j <= i)

DataPrefix == <<"d", "a", "t", "a", ":">>
DoneText == <<"[", "D", "O", "N", "E", "]">>
TypeOpen == <<"{", "\"", "t", "y", "p", "e", "\"", ":", "\"">>
TypeClose == <<"\"", "}">>
PayloadOpen == <<"{", "\"", "p", "a", "y", "l", "o", "a", "d", "\"", ":">>
PayloadClose == <<"}">>

\* A parsed JSON value is a record with its kind: "null", "number",
\* "string" with the text, "array", or "object" with the fields it has.
\* Undefined is what reading a missing field gives.
Undefined == [kind |-> "undefined"]

\* The null that normalizeEvent returns for a record that is no event.
NullEvent == [null |-> "event"]

IsString(v) == v.kind = "string"

\* typeof v === "object" for a v that is not falsy
IsObject(v) == v.kind \in {"object", "array"}

\* record.f of an object or an array (an array has none of the fields read here)
Field(v, f) ==
  IF v.kind = "object" /\ HasField(v.fields, f) THEN v.fields[f] ELSE Undefined

\* JSON.parse on the documents the streams carry: the number 1, an object
\* {"type":"..."} and an object {"payload":...} around one of the three;
\* every other text here is not JSON and makes it throw.
RECURSIVE JSONparse(_)
JSONparse(raw) ==
  IF raw = <<"1">> THEN [value |-> [kind |-> "number"]]
  ELSE IF /\ startsWith(raw, TypeOpen) /\ endsWith(raw, TypeClose)
          /\ Len(raw) >= Len(TypeOpen) + Len(TypeClose)
          /\ \A i \in (Len(TypeOpen) + 1)..(Len(raw) - Len(TypeClose)) :
               raw[i] \notin {"\"", "\\", "\n", "\r", "\t"}
       THEN [value |->
               [kind |-> "object",
                fields |-> [type |-> [kind |-> "string",
                                      text |-> SubSeq(raw, Len(TypeOpen) + 1,
                                                      Len(raw) - Len(TypeClose))]]]]
  ELSE IF /\ startsWith(raw, PayloadOpen) /\ endsWith(raw, PayloadClose)
          /\ Len(raw) >= Len(PayloadOpen) + Len(PayloadClose)
       THEN LET inner == JSONparse(SubSeq(raw, Len(PayloadOpen) + 1,
                                          Len(raw) - Len(PayloadClose)))
            IN IF HasField(inner, "throws") THEN inner
               ELSE [value |-> [kind |-> "object", fields |-> [payload |-> inner.value]]]
  ELSE [throws |-> "SyntaxError"]

normalizeEvent_PayloadFirst(raw) ==
  IF ~IsObject(raw) THEN NullEvent
  ELSE IF IsObject(Field(raw, "payload")) /\ IsString(Field(Field(raw, "payload"), "type"))
       THEN [type |-> Field(Field(raw, "payload"), "type").text,
             properties |-> Field(Field(raw, "payload"), "properties")]
  ELSE IF IsString(Field(raw, "type"))
       THEN [type |-> Field(raw, "type").text, properties |-> Field(raw, "properties")]
  ELSE NullEvent

\* normalizeEvent(raw): the event of a parsed record, NullEvent for null.
normalizeEvent(raw) ==
  IF ~IsObject(raw) THEN NullEvent
  ELSE IF IsString(Field(raw, "type"))
       THEN [type |-> Field(raw, "type").text, properties |-> Field(raw, "properties")]
  ELSE IF IsObject(Field(raw, "payload"))
       THEN IF IsString(Field(Field(raw, "payload"), "type"))
            THEN [type |-> Field(Field(raw, "payload"), "type").text,
                  properties |-> Field(Field(raw, "payload"), "properties")]
            ELSE NullEvent
  ELSE NullEvent

\* The records normalizeEvent is given: values that are no objects, and
\* objects having or lacking a type (a string or not), properties and a
\* payload (no object, or an object having or lacking the same).
Str(text) == [kind |-> "string", text |-> text]
Obj(fields) == [kind |-> "object", fields |-> fields]
Fields(type, properties, payload) ==
  LET val == [type |-> type, properties |-> properties, payload |-> payload]
  IN [f \in {k \in DOMAIN val : val[k] # Undefined} |-> val[f]]
TopProperties == Obj([id |-> Str(<<"p">>)])
PayloadProperties == Obj([id |-> Str(<<"q">>)])
NonObjects == {Undefined, [kind |-> "null"], [kind |-> "number"], Str(<<"a">>)}
PayloadObjects ==
  { Obj(Fields(t, p, Undefined)) :
      t \in {Undefined, Str(<<"b">>), [kind |-> "number"]},
      p \in {Undefined, PayloadProperties} }
RawRecords ==
  NonObjects \cup {[kind |-> "array"]} \cup
  { Obj(Fields(t, p, y)) :
      t \in {Undefined, Str(<<"a">>), [kind |-> "number"], [kind |-> "null"]},
      p \in {Undefined, TopProperties},
      y \in NonObjects \cup {[kind |-> "array"]} \cup PayloadObjects }

\* The loop has taken the record raw from the stream and not normalized it yet.
Pending == [pending |-> "event"]

\* const event = normalizeEvent(raw), on a record of a type the loop has no
\* branch for.
NormalizeRecord ==
  /\ reader # NoReader /\ HasField(reader, "raw")
  /\ reader.event = Pending
  /\ reader' = [reader EXCEPT !.event = normalizeEvent(reader.raw)]
  /\ UNCHANGED <<app, client, sessVars, selectedSessionId, txVars, permVars, modelVars,
                 uiVars, tasks, probe, connVars, histVars>>

EventLogKeep == 50

\* prev.slice(-50)
sliceLast(prev, n) ==
  IF Len(prev) <= n THEN prev ELSE SubSeq(prev, Len(prev) - n + 1, Len(prev))

handleLine_FailureResetsLog(events, line) ==
  IF ~startsWith(line, DataPrefix) THEN events
  ELSE LET raw == trim(SubSeq(line, Len(DataPrefix) + 1, Len(line)))
       IN IF raw = <<>> \/ raw = DoneText THEN <<>>
          ELSE LET parsed == JSONparse(raw)
               IN IF HasField(parsed, "throws") THEN <<>>
                  ELSE LET evt == normalizeEvent(parsed.value)
                       IN IF evt = NullEvent THEN events
                          ELSE Append(sliceLast(events, EventLogKeep), evt)

\* The body of `for (const line of lines)` for one line: the events log
\* after it.  The event types of the streams are types the loop has no
\* branch for, so the log is all that an event changes.
handleLine(events, line) ==
  IF ~startsWith(line, DataPrefix) THEN events
  ELSE LET raw == trim(SubSeq(line, Len(DataPrefix) + 1, Len(line)))
       IN IF raw = <<>> \/ raw = DoneText THEN events
          ELSE LET parsed == JSONparse(raw)
               IN IF HasField(parsed, "throws") THEN events
                  ELSE LET evt == normalizeEvent(parsed.value)
                       IN IF evt = NullEvent THEN events
                          ELSE Append(sliceLast(events, EventLogKeep), evt)

RECURSIVE handleLines(_, _)
handleLines(events, lines) ==
  IF lines = <<>> THEN events
  ELSE handleLines(handleLine(events, Head(lines)), Tail(lines))

readChunk_NoCarry(run, value) ==
  LET d == decode([text |-> <<>>, pending |-> run.pending], value)
      lines == split(run.buffer \o d.text)
  IN [run EXCEPT !.pos = @ + Len(value), !.pending = d.pending,
                 !.buffer = <<>>,
                 !.events = handleLines(@, lines)]

\* One turn of the while loop after reader.read() gave the chunk value:
\* buffer += decoder.decode(value, { stream: true }); lines =
\* buffer.split("\n"); buffer = lines.pop(); then the lines in order.
readChunk(run, value) ==
  LET d == decode([text |-> <<>>, pending |-> run.pending], value)
      lines == split(run.buffer \o d.text)
  IN [run EXCEPT !.pos = @ + Len(value), !.pending = d.pending,
                 !.buffer = lines[Len(lines)],
                 !.events = handleLines(@, SubSeq(lines, 1, Len(lines) - 1))]

\* The lines a stream is made of: two events (the second with a space after
\* the colon, a two-byte character and a carriage return) and the empty
\* line that ends an event.
EventA == DataPrefix \o TypeOpen \o <<"a">> \o TypeClose
EventE == DataPrefix \o <<" ">> \o TypeOpen \o <<Utf8Lead, Utf8Cont>> \o TypeClose \o <<"\r">>
StreamLines ==
  { EventA, EventE, <<>> }

RECURSIVE joinLines(_)
joinLines(ls) ==
  IF ls = <<>> THEN <<>> ELSE Head(ls) \o <<"\n">> \o joinLines(Tail(ls))

\* The byte streams: up to MaxLines terminated lines, then nothing or an
\* event line the server has not terminated.
Streams ==
  { joinLines(ls) \o tail :
      ls \in UNION { [1..k -> StreamLines] : k \in 0..MaxLines },
      tail \in {<<>>, EventA} }

\* The data lines that carry no record: an empty payload, the end marker, a
\* document that JSON.parse rejects.
EmptyData == DataPrefix
DoneLine == DataPrefix \o <<" ">> \o DoneText
BrokenLine == DataPrefix \o <<"{">>
DroppedLines == {EmptyData, DoneLine, BrokenLine}

\* The streams of up to MaxLines terminated lines, records and lines that
\* carry none, with the lines each is made of.
MixedStreams ==
  { [stream |-> joinLines(ls), lines |-> ls] :
      ls \in UNION { [1..k -> {EventA, EventE} \cup DroppedLines] : k \in 0..MaxLines } }

\* The same bytes are read twice, each time in chunks of its own.
Runs == {1, 2}

\* The locals of a loop that has read nothing yet.  cuts is history: whether
\* a read of this run has ended inside a line ("line") or between the two
\* bytes of a character ("char").
NewRun ==
  [pos |-> 0, pending |-> <<>>, buffer |-> <<>>, events |-> <<>>, done |-> FALSE, cuts |-> {}]

CutsAt(pos) ==
  IF pos = Len(reader.stream) \/ reader.stream[pos] = "\n" THEN {}
  ELSE IF reader.stream[pos] = Utf8Lead THEN {"line", "char"} ELSE {"line"}

\* The sizes reader.read() can give at position pos: up to MaxChunk bytes,
\* or all that is left.
ChunkSizes(pos) ==
  {n \in 1..(Len(reader.stream) - pos) : n <= MaxChunk \/ n = Len(reader.stream) - pos}

readerFrame ==
  <<app, client, sessVars, selectedSessionId, txVars, permVars, modelVars, uiVars, tasks,
    probe, connVars, histVars>>

\* const { done, value } = await reader.read() with done false, and the
\* turn of the loop on value.
SseRead(r) ==
  /\ reader # NoReader
  /\ ~reader.run[r].done
  /\ \E n \in ChunkSizes(reader.run[r].pos) :
       reader' = [reader EXCEPT !.run[r] =
                    [readChunk(@, SubSeq(reader.stream, @.pos + 1, @.pos + n))
                       EXCEPT !.cuts = @ \cup CutsAt(reader.run[r].pos + n)]]
  /\ UNCHANGED readerFrame

\* reader.read() gives done: break.  What the buffer holds is dropped.
SseDone(r) ==
  /\ reader # NoReader
  /\ ~reader.run[r].done
  /\ reader.run[r].pos = Len(reader.stream)
  /\ reader' = [reader EXCEPT !.run[r].done = TRUE]
  /\ UNCHANGED readerFrame

----------------------------------------------------------------------------
(* connectToServer, disconnect and the SSE effect.  The effect runs again   *)
(* when client() changes: the cleanup of its last run aborts that run's     *)
(* subscription, and a client that is not null gets a subscription of its   *)
(* own.                                                                     *)

ClientIds == {"c1", "c2"}

\* health.version of the server that waitForHealthy found healthy.
ServerVersion == "1.0"

\* The async function of the subscription is suspended at an await.
SubPending == sub.pc \in {"subscribing", "reading"}

\* onCleanup of the effect's last run: the abort signal is raised (and the
\* desktop application sets cancelled).
CleanedUp == IF SubPending THEN [sub EXCEPT !.cancelled = TRUE] ELSE sub

\* What an await of the subscription rejects with: the abort error once the
\* signal is raised, else a failure of the connection.
AbortError == [name |-> "AbortError", message |-> "The operation was aborted."]
ConnectionFailures ==
  { [name |-> "TypeError", message |-> "Failed to fetch"],
    [name |-> "Error", message |-> "Software caused connection abort"] }
Rejections == IF sub.cancelled THEN {AbortError} ELSE ConnectionFailures

\* message.toLowerCase().includes("abort")
MentionsAbort(message) ==
  message \in {"The operation was aborted.", "Software caused connection abort"}

\* connectToServer(nextBaseUrl, directory), up to await waitForHealthy(nextClient).
connectToServer(next) ==
  /\ \A t \in tasks : t.op # "connect"
  /\ next # client /\ next # sub.client
  /\ error' = Null
  /\ busy' = TRUE
  /\ sseConnected' = FALSE
  /\ tasks' = tasks \cup {[op |-> "connect", client |-> next, pc |-> "health"]}
  /\ returned' = NotReturned
  /\ UNCHANGED <<app, client, sessVars, selectedSessionId, txVars, permVars, modelVars,
                 probe, reader, permissionReplyBusy, sub, connectedVersion, lastEvt,
                 lastPayload, seen, firstSeen, lastRefresh, fetched>>

\* waitForHealthy returns: setClient(nextClient),
\* setConnectedVersion(health.version), and the effect runs for
\* it (the subscription of the client before has come to its end); then
\* loadSessions(nextClient).  history: no record of the new stream has been
\* handled.
ConnectHealthy(t) ==
  /\ t \in tasks /\ t.op = "connect" /\ t.pc = "health"
  /\ ~SubPending
  /\ client' = t.client
  /\ connectedVersion' = ServerVersion
  /\ sub' = Subscribing(t.client)
  /\ sseConnected' = IF app = "ext" /\ sub.pc # "none" THEN FALSE ELSE sseConnected
  /\ lastEvt' = [evt |-> NoEvent, bit |-> lastEvt.bit]
  /\ tasks' = Moved(t, "sessions")
  /\ UNCHANGED <<app, sessVars, selectedSessionId, txVars, permVars, modelVars, uiVars,
                 probe, reader, permissionReplyBusy, lastPayload, seen, firstSeen,
                 lastRefresh, fetched, returned>>

\* c.session.list() of loadSessions resolves: setSessions(list); then
\* refreshPendingPermissions(nextClient).
ConnectSessionsResolved(t, list) ==
  /\ t \in tasks /\ t.op = "connect" /\ t.pc = "sessions"
  /\ sessions' = list
  /\ tasks' = Moved(t, "permissions")
  /\ UNCHANGED <<app, client, sessionStatusById, selectedSessionId, txVars, permVars,
                 modelVars, uiVars, probe, reader, connVars, histVars>>

ConnectPermissionsResolved_KeepsSelection(t, list) ==
  /\ t \in tasks /\ t.op = "connect" /\ t.pc = "permissions"
  /\ pendingPermissions' = reconcile(pendingPermissions, list, now)
  /\ Refreshed(list)
  /\ busy' = FALSE
  /\ returned' = Returned(TRUE)
  /\ tasks' = tasks \ {t}
  /\ UNCHANGED <<app, client, sessVars, selectedSessionId, txVars, now, modelVars, error,
                 probe, reader, connVars, lastEvt, lastPayload, seen, fetched>>

\* c.permission.list() resolves: the setter runs; setSelectedSessionId(null),
\* setMessages([]), setTodos([]); return true; finally { setBusy(false) }.
ConnectPermissionsResolved(t, list) ==
  /\ t \in tasks /\ t.op = "connect" /\ t.pc = "permissions"
  /\ pendingPermissions' = reconcile(pendingPermissions, list, now)
  /\ Refreshed(list)
  /\ selectedSessionId' = Null
  /\ messages' = <<>>
  /\ todos' = <<>>
  /\ busy' = FALSE
  /\ returned' = Returned(TRUE)
  /\ tasks' = tasks \ {t}
  /\ UNCHANGED <<app, client, sessVars, now, modelVars, error, probe, reader, connVars,
                 lastEvt, lastPayload, seen, fetched>>

\* An await of connectToServer rejects: catch { setClient(null);
\* setConnectedVersion(null); setError(...); return false }, and the effect's
\* cleanup runs when the client was set; finally { setBusy(false) }.
ConnectFailed(t, thrown) ==
  /\ t \in tasks /\ t.op = "connect"
  /\ client' = Null
  /\ sub' = IF client # Null THEN CleanedUp ELSE sub
  /\ sseConnected' = IF app = "ext" /\ client # Null THEN FALSE ELSE sseConnected
  /\ connectedVersion' = Null
  /\ error' = thrown.message
  /\ busy' = FALSE
  /\ returned' = Returned(FALSE)
  /\ tasks' = tasks \ {t}
  /\ UNCHANGED <<app, sessVars, selectedSessionId, txVars, permVars, modelVars, probe,
                 reader, permissionReplyBusy, lastEvt, lastPayload, seen, firstSeen,
                 lastRefresh, fetched>>

\* disconnect() (in the desktop application the body of stopHost's try):
\* every signal of the store is reset, and the effect's cleanup runs.
disconnect ==
  /\ client # Null
  /\ \A t \in tasks : t.op # "connect"
  /\ client' = Null
  /\ connectedVersion' = Null
  /\ sessions' = <<>>
  /\ selectedSessionId' = Null
  /\ messages' = <<>>
  /\ todos' = <<>>
  /\ pendingPermissions' = <<>>
  /\ sessionStatusById' = EmptyMap
  /\ sseConnected' = FALSE
  /\ sub' = CleanedUp
  /\ IF app = "desktop" THEN error' = Null /\ busy' = FALSE ELSE UNCHANGED uiVars
  /\ UNCHANGED <<app, now, modelVars, tasks, probe, reader, permissionReplyBusy, histVars>>

streamFrame ==
  <<app, client, sessVars, selectedSessionId, txVars, permVars, modelVars, busy, tasks,
    probe, reader, permissionReplyBusy, histVars, connectedVersion>>

\* event.subscribe() resolves.  The extension returns when the response has
\* no body, and else sets the live flag and starts to read; the desktop
\* application starts to iterate sub.stream.
SubscribeResolved(hasBody) ==
  /\ sub.pc = "subscribing" /\ ~sub.cancelled
  /\ IF app = "ext"
     THEN IF hasBody
          THEN sseConnected' = TRUE /\ sub' = [sub EXCEPT !.pc = "reading"]
          ELSE sseConnected' = sseConnected /\ sub' = [sub EXCEPT !.pc = "returned"]
     ELSE sseConnected' = sseConnected /\ sub' = [sub EXCEPT !.pc = "reading"]
  /\ UNCHANGED <<streamFrame, error>>

caught_ReportsAbort(thrown) ==
  IF app = "ext"
  THEN /\ sseConnected' = FALSE
       /\ sub' = [sub EXCEPT !.pc = "failed"]
       /\ error' = error
  ELSE /\ sseConnected' = sseConnected
       /\ error' = thrown.message
       /\ sub' = [sub EXCEPT !.pc = "failed"]

\* catch (e) of the subscription's async function.  The extension sets the
\* live flag false unless e is the abort error; the desktop application
\* returns when cancelled is set or the message mentions an abort, and else
\* sets the error.  The function returns in every case.
caught(thrown) ==
  IF app = "ext"
  THEN /\ sseConnected' = IF thrown.name # "AbortError" THEN FALSE ELSE sseConnected
       /\ sub' = [sub EXCEPT !.pc = IF thrown.name # "AbortError" THEN "failed"
                                    ELSE "aborted"]
       /\ error' = error
  ELSE /\ sseConnected' = sseConnected
       /\ IF sub.cancelled \/ MentionsAbort(thrown.message)
          THEN error' = error /\ sub' = [sub EXCEPT !.pc = "aborted"]
          ELSE error' = thrown.message /\ sub' = [sub EXCEPT !.pc = "failed"]

\* event.subscribe() rejects.
SubscribeRejected(thrown) ==
  /\ sub.pc = "subscribing"
  /\ thrown \in Rejections
  /\ caught(thrown)
  /\ UNCHANGED streamFrame

\* reader.read() (the desktop application: the iteration of sub.stream)
\* rejects while the loop waits for the next record.
ReadRejected(thrown) ==
  /\ sub.pc = "reading"
  /\ \A t \in tasks : t.op \notin {"loop.permissions", "loop.todo"}
  /\ thrown \in Rejections
  /\ caught(thrown)
  /\ UNCHANGED streamFrame

\* The server ends the stream: done, and the loop is left.
StreamEnded ==
  /\ sub.pc = "reading" /\ ~sub.cancelled
  /\ \A t \in tasks : t.op \notin {"loop.permissions", "loop.todo"}
  /\ sub' = [sub EXCEPT !.pc = "ended"]
  /\ UNCHANGED <<streamFrame, error, sseConnected>>

\* server.connected in the desktop application: setSseConnected(true).
OnServerConnected(evt) ==
  /\ LoopRuns
  /\ app = "desktop"
  /\ evt.type = "server.connected"
  /\ sseConnected' = TRUE
  /\ lastEvt' = Handled(evt)
  /\ UNCHANGED <<app, client, sessVars, selectedSessionId, txVars, permVars, modelVars,
                 uiVars, tasks, probe, reader, permissionReplyBusy, sub, lastPayload, seen,
                 firstSeen, lastRefresh, fetched, connectedVersion, returned>>

ServerConnectedEvents == { [type |-> "server.connected", properties |-> [none |-> "props"]] }

----------------------------------------------------------------------------
(* The permission prompt: respondPermission.  Its task is the call in       *)
(* progress: the request, the reply and the await it is suspended at.       *)

NoPermission == [none |-> "permission"]

\* The request the permission prompt shows: the first pending one of the
\* selected session, or the first pending one when no session is selected.
activePermission ==
  LET shown == {i \in 1..Len(pendingPermissions) :
                  selectedSessionId = Null
                  \/ pendingPermissions[i].sessionID = selectedSessionId}
  IN IF shown = {} THEN NoPermission
     ELSE pendingPermissions[CHOOSE i \in shown : \A j \in shown : i <= j]

Replies == {"once", "always", "reject"}

\* What fetch rejects with when the server cannot be reached.
FetchFailure == [kind |-> "Error", message |-> "Failed to fetch"]

\* What fails a call of session.prompt / permission.reply: the Error unwrap
\* throws for the error the server answered, or the rejection of fetch.
PromptFailures ==
  { unwrap([error |-> [kind |-> "string", message |-> "session is busy"]]).throws,
    FetchFailure }
ReplyResults ==
  { [data |-> TRUE],
    [error |-> [kind |-> "string", message |-> "request not found"]],
    [error |-> [kind |-> "string", message |-> ""]] }

respondPermission_RepliesWhileBusy(requestID, reply) ==
  /\ client # Null
  /\ activePermission # NoPermission
  /\ requestID = activePermission.id
  /\ permissionReplyBusy' = TRUE
  /\ error' = Null
  /\ tasks' = tasks \cup {[op |-> "reply", client |-> client, requestID |-> requestID,
                           reply |-> reply, pc |-> "reply"]}
  /\ UNCHANGED <<app, client, sessVars, selectedSessionId, txVars, permVars, modelVars,
                 busy, probe, reader, sseConnected, sub, histVars, connectedVersion>>

\* respondPermission(requestID, reply), up to await c.permission.reply: a
\* click on a button of the prompt.
respondPermission(requestID, reply) ==
  /\ client # Null
  /\ ~permissionReplyBusy
  /\ activePermission # NoPermission
  /\ requestID = activePermission.id
  /\ permissionReplyBusy' = TRUE
  /\ error' = Null
  /\ tasks' = tasks \cup {[op |-> "reply", client |-> client, requestID |-> requestID,
                           reply |-> reply, pc |-> "reply"]}
  /\ UNCHANGED <<app, client, sessVars, selectedSessionId, txVars, permVars, modelVars,
                 busy, probe, reader, sseConnected, sub, histVars, connectedVersion>>

replyCaught_StaysBusy(t, thrown) ==
  /\ error' = IF thrown.kind = "Error" THEN thrown.message ELSE "Unknown error"
  /\ tasks' = tasks \ {t}
  /\ UNCHANGED <<app, client, sessVars, selectedSessionId, txVars, permVars, modelVars,
                 busy, probe, reader, connVars, histVars>>

\* catch (e) { setError(e instanceof Error ? e.message : "Unknown error") }
\* finally { setPermissionReplyBusy(false) }.
replyCaught(t, thrown) ==
  /\ error' = IF thrown.kind = "Error" THEN thrown.message ELSE "Unknown error"
  /\ permissionReplyBusy' = FALSE
  /\ tasks' = tasks \ {t}
  /\ UNCHANGED <<app, client, sessVars, selectedSessionId, txVars, permVars, modelVars,
                 busy, probe, reader, sseConnected, sub, histVars, connectedVersion>>

\* c.permission.reply(...) resolves with result: unwrap throws on an error,
\* else refreshPendingPermissions(c) is called.
ReplyResolved(t, result) ==
  /\ t \in tasks /\ t.op = "reply" /\ t.pc = "reply"
  /\ IF HasField(unwrap(result), "throws")
     THEN replyCaught(t, unwrap(result).throws)
     ELSE /\ tasks' = Moved(t, "permissions")
          /\ UNCHANGED <<app, client, sessVars, selectedSessionId, txVars, permVars,
                         modelVars, uiVars, probe, reader, connVars, histVars>>

\* c.permission.reply(...) or the c.permission.list() of the refresh rejects.
ReplyRejected(t, thrown) ==
  /\ t \in tasks /\ t.op = "reply"
  /\ replyCaught(t, thrown)

\* c.permission.list() of respondPermission's refresh resolves: the setter
\* runs; finally { setPermissionReplyBusy(false) }.
ReplyPermissionsResolved(t, list) ==
  /\ t \in tasks /\ t.op = "reply" /\ t.pc = "permissions"
  /\ pendingPermissions' = reconcile(pendingPermissions, list, now)
  /\ Refreshed(list)
  /\ permissionReplyBusy' = FALSE
  /\ tasks' = tasks \ {t}
  /\ UNCHANGED <<app, client, sessVars, selectedSessionId, txVars, now, modelVars, uiVars,
                 probe, reader, sseConnected, sub, lastEvt, lastPayload, seen, fetched,
                 connectedVersion, returned>>

----------------------------------------------------------------------------
(* Initial states *)

InitHistory ==
  /\ lastEvt = [evt |-> NoEvent, bit |-> 0]
  /\ lastPayload = [id \in SessionIds |-> NoSession]
  /\ seen = [msgs |-> {}, skipped |-> {}, dropped |-> {}, after |-> EmptyMap, late |-> {},
             removed |-> {}]
  /\ firstSeen = EmptyMap
  /\ lastRefresh = NoRefresh
  /\ fetched = NoFetch
  /\ returned = NotReturned

\* The signals as App() creates them.
InitSignals ==
  /\ app \in Apps
  /\ client = Null
  /\ sessions = <<>>
  /\ sessionStatusById = EmptyMap
  /\ selectedSessionId = Null
  /\ messages = <<>>
  /\ todos = <<>>
  /\ pendingPermissions = <<>>
  /\ now = 0
  /\ defaultModel = DEFAULT_MODEL
  /\ modelPickerTarget = "session"
  /\ modelPickerOpen = FALSE
  /\ sessionModelOverrideById = EmptyMap
  /\ sessionModelById = EmptyMap
  /\ busy = FALSE
  /\ error = Null
  /\ tasks = {}
  /\ probe = NoProbe
  /\ reader = NoReader
  /\ sseConnected = FALSE
  /\ permissionReplyBusy = FALSE
  /\ sub = NoSub
  /\ connectedVersion = Null

\* After connectToServer has succeeded against a server with no sessions and
\* no pending permissions.
InitConnected ==
  /\ app \in Apps
  /\ client = "c1"
  /\ sessions = <<>>
  /\ sessionStatusById = EmptyMap
  /\ selectedSessionId = Null
  /\ messages = <<>>
  /\ todos = <<>>
  /\ pendingPermissions = <<>>
  /\ now = 0
  /\ defaultModel = DEFAULT_MODEL
  /\ modelPickerTarget = "session"
  /\ modelPickerOpen = FALSE
  /\ sessionModelOverrideById = EmptyMap
  /\ sessionModelById = EmptyMap
  /\ busy = FALSE
  /\ error = Null
  /\ tasks = {}
  /\ probe = NoProbe
  /\ reader = NoReader
  /\ sseConnected = TRUE
  /\ permissionReplyBusy = FALSE
  /\ sub = Reading("c1")
  /\ connectedVersion = ServerVersion

\* The signals, but for the application and the stream it reads, after
\* connectToServer has succeeded against a server with no sessions and no
\* pending permissions and the event stream has been opened.
InitLive ==
  /\ client = "c1"
  /\ sessions = <<>>
  /\ sessionStatusById = EmptyMap
  /\ selectedSessionId = Null
  /\ messages = <<>>
  /\ todos = <<>>
  /\ pendingPermissions = <<>>
  /\ now = 0
  /\ defaultModel = DEFAULT_MODEL
  /\ modelPickerTarget = "session"
  /\ modelPickerOpen = FALSE
  /\ sessionModelOverrideById = EmptyMap
  /\ sessionModelById = EmptyMap
  /\ busy = FALSE
  /\ error = Null
  /\ tasks = {}
  /\ probe = NoProbe
  /\ sseConnected = TRUE
  /\ permissionReplyBusy = FALSE
  /\ sub = Reading("c1")
  /\ connectedVersion = ServerVersion

\* The session list of the server the client is connected to.
ServerSessions ==
  << [id |-> "s1", title |-> "t1", status |-> "none"],
     [id |-> "s2", title |-> "t1", status |-> "none"] >>

\* After connectToServer has succeeded against a server holding
\* ServerSessions and, when selected is a session id, selectSession(selected)
\* has completed on a session with no history, no todos and no model.
InitOpened(selected) ==
  /\ app \in Apps
  /\ client = "c1"
  /\ sessions = ServerSessions
  /\ sessionStatusById = EmptyMap
  /\ selectedSessionId = selected
  /\ messages = <<>>
  /\ todos = <<>>
  /\ pendingPermissions = <<>>
  /\ now = 0
  /\ defaultModel = DEFAULT_MODEL
  /\ modelPickerTarget = "session"
  /\ modelPickerOpen = FALSE
  /\ sessionModelOverrideById = EmptyMap
  /\ sessionModelById = EmptyMap
  /\ busy = FALSE
  /\ error = Null
  /\ tasks = {}
  /\ probe = NoProbe
  /\ reader = NoReader
  /\ sseConnected = TRUE
  /\ permissionReplyBusy = FALSE
  /\ sub = Reading("c1")
  /\ connectedVersion = ServerVersion

----------------------------------------------------------------------------
(* Session events on a live connection *)

InitSessions == InitConnected /\ InitHistory

NextSessions ==
  \E evt \in SessionEvents \cup SessionDeletedEvents \cup SessionStatusEvents :
    \/ OnSessionEvent(evt)
    \/ OnSessionDeleted(evt)
    \/ OnSessionStatus(evt)
    \/ OnOtherEvent(evt)

SpecSessions == InitSessions /\ [][NextSessions]_vars

\* C1: after any sequence of session.created/session.updated events the
\* session list holds, for each id that had an event, exactly one session
\* with that id, and it is the payload of the last event for that id; and a
\* step that handles an event for one id leaves the stored sessions of
\* every other id as they were.
C1_LastSessionEventWins ==
  /\ [](\A id \in SessionIds :
          lastPayload[id] # NoSession => WithId(sessions, id) = <<lastPayload[id]>>)
  /\ [][(lastEvt'.bit # lastEvt.bit /\ HasField(lastEvt'.evt.properties, "info"))
          => \A id \in SessionIds \ {lastEvt'.evt.properties.info.id} :
               WithId(sessions', id) = WithId(sessions, id)]_vars

\* C1 witness: s1 was stored first, s2 after it, and the last event handled
\* was again for s1 and replaced its title.
C1_Witness ==
  /\ Len(sessions) = 2
  /\ sessions[1].id = "s1" /\ sessions[2].id = "s2"
  /\ lastEvt.evt.type = "session.updated"
  /\ HasField(lastEvt.evt.properties, "info")
  /\ lastEvt.evt.properties.info = sessions[1]
  /\ sessions[1].title = "t2" /\ sessions[2].title = "t1"

\* C14: on any session list, upsertSession(sessions, next) puts next at
\* the position of the session with next.id and leaves every other position
\* as it was, or, when no session has that id, is the list with next added
\* at the end; so the other entries keep their order and the list grows by
\* one at most.
C14_UpsertSessionInPlaceOrAppend ==
  \A next \in SessionInfos :
    LET r == upsertSession(sessions, next)
    IN IF \E i \in 1..Len(sessions) : sessions[i].id = next.id
       THEN /\ Len(r) = Len(sessions)
            /\ \A i \in 1..Len(sessions) :
                 r[i] = IF sessions[i].id = next.id THEN next ELSE sessions[i]
       ELSE /\ Len(r) = Len(sessions) + 1
            /\ r[Len(r)] = next
            /\ SubSeq(r, 1, Len(sessions)) = sessions

\* C14 witness: s2 was listed first and an update has since replaced its
\* payload in place; the last event, session.created for s1, has added s1
\* after it.
C14_Witness ==
  /\ Len(sessions) = 2
  /\ sessions[1].id = "s2" /\ sessions[2].id = "s1"
  /\ sessions[1].title = "t2" /\ sessions[1] = lastPayload["s2"]
  /\ lastEvt.evt.type = "session.created"
  /\ HasField(lastEvt.evt.properties, "info")
  /\ lastEvt.evt.properties.info = sessions[2]

\* The ids of the listed sessions.
ListedIds(list) == {list[i].id : i \in 1..Len(list)}

\* C19: a step that handles a session.deleted event with a session payload
\* takes the session with that id, and no other, out of the session list
\* and leaves the others in their order; no step that handles another
\* event takes a session out of the list.
C19_SessionLeavesOnDeleted ==
  [][IF /\ lastEvt'.bit # lastEvt.bit
        /\ lastEvt'.evt.type = "session.deleted"
        /\ HasField(lastEvt'.evt.properties, "info")
     THEN sessions' = SelectSeq(sessions, LAMBDA x : x.id # lastEvt'.evt.properties.info.id)
     ELSE ListedIds(sessions) \subseteq ListedIds(sessions')]_vars

\* C18 as claimed: every step that handles a session.created or
\* session.updated event with a session payload stores, for that session,
\* the status its nested status type maps to (busy: running, retry: retry,
\* idle and anything else: idle); and every stored status is one of
\* running, retry, idle.
C18_StatusFromSessionEvent ==
  /\ [](\A id \in DOMAIN sessionStatusById :
          sessionStatusById[id] \in {"running", "retry", "idle"})
  /\ [][lastEvt'.bit # lastEvt.bit
          => LET evt == lastEvt'.evt
             IN (evt.type \in {"session.created", "session.updated"}
                  /\ HasField(evt.properties, "info"))
                => /\ evt.properties.info.id \in DOMAIN sessionStatusById'
                   /\ sessionStatusById'[evt.properties.info.id] =
                        CASE evt.properties.info.status = "busy" -> "running"
                          [] evt.properties.info.status = "retry" -> "retry"
                          [] OTHER -> "idle"]_vars

\* C18 amended: in the extension every step that handles a session.created
\* or session.updated event with a session payload stores, for that session,
\* the status its nested status type maps to (busy: running, retry: retry,
\* idle and anything else: idle); in the desktop application such a step
\* leaves the stored statuses as they were, and there a step that handles
\* a session.status event stores what the event's status type maps to and
\* a step that handles a session.idle event stores idle; every stored
\* status is one of running, retry, idle.
C18_StatusFromStatusBearingEvent ==
  /\ [](\A id \in DOMAIN sessionStatusById :
          sessionStatusById[id] \in {"running", "retry", "idle"})
  /\ [][lastEvt'.bit # lastEvt.bit
          => LET evt == lastEvt'.evt
                 mapped(type) == CASE type = "busy" -> "running"
                                   [] type = "retry" -> "retry"
                                   [] OTHER -> "idle"
             IN /\ (evt.type \in {"session.created", "session.updated"}
                      /\ HasField(evt.properties, "info"))
                    => IF app = "ext"
                       THEN /\ evt.properties.info.id \in DOMAIN sessionStatusById'
                            /\ sessionStatusById'[evt.properties.info.id] =
                                 mapped(evt.properties.info.status)
                       ELSE sessionStatusById' = sessionStatusById
                /\ (app = "desktop" /\ evt.type \in {"session.status", "session.idle"}
                      /\ HasField(evt.properties, "sessionID"))
                    => /\ evt.properties.sessionID \in DOMAIN sessionStatusById'
                       /\ sessionStatusById'[evt.properties.sessionID] =
                            IF evt.type = "session.idle" THEN "idle"
                            ELSE mapped(evt.properties.status)]_vars

\* C18 witness: in the desktop application s1 is listed with a busy payload,
\* its stored status is idle, from the session.status event of an unknown
\* type handled last, and s2's is running.
C18_Witness ==
  /\ app = "desktop"
  /\ Len(sessions) = 2
  /\ sessions[1].id = "s1" /\ sessions[1].status = "busy"
  /\ lastEvt.evt = [type |-> "session.status",
                    properties |-> [sessionID |-> "s1", status |-> "other"]]
  /\ DOMAIN sessionStatusById = {"s1", "s2"}
  /\ sessionStatusById["s1"] = "idle" /\ sessionStatusById["s2"] = "running"

----------------------------------------------------------------------------
(* Message and part events on a live connection, one session selected or none *)

InitTranscript ==
  /\ \E selected \in {"s1", Null} : InitOpened(selected)
  /\ InitHistory

NextTranscript ==
  \E evt \in MessageEvents \cup PartEvents \cup RemovalEvents :
    \/ OnMessageEvent(evt)
    \/ OnPartEvent(evt)
    \/ OnPartRemoved(evt)
    \/ OnMessageRemoved(evt)
    \/ OnOtherEvent(evt)

SpecTranscript == InitTranscript /\ [][NextTranscript]_vars

\* The messages of the transcript with the given id, in order.
StoredMessage(list, id) == SelectSeq(list, LAMBDA m : m.info.id = id)

\* C2: on any transcript, upsertPart for a part whose messageID matches no
\* stored message returns the transcript as it is; and upsertMessage for that
\* id followed by the same upsertPart gives a transcript in which that
\* message is stored once and its part list is exactly that part.
C2_PartBeforeMessageIsNoOp ==
  \A part \in Parts :
    (\A i \in 1..Len(messages) : messages[i].info.id # part.messageID)
    => /\ upsertPart(messages, part) = messages
       /\ \A info \in TranscriptInfos :
            info.id = part.messageID
            => LET result == upsertPart(upsertMessage(upsertPart(messages, part), info), part)
                   owner  == StoredMessage(result, info.id)
               IN /\ Len(result) = Len(messages) + 1
                  /\ owner = << [info |-> info, parts |-> <<part>>] >>

\* C2 witness: the loop handled a part event for p1 of m1 before m1's message
\* event (dropped), then m1's message event, then a part event for p1 again:
\* m1 owns that one part.
C2_Witness ==
  /\ <<"m1", "p1">> \in seen.late
  /\ Len(messages) = 1
  /\ messages[1].info.id = "m1"
  /\ Len(messages[1].parts) = 1
  /\ messages[1].parts[1] = seen.after[<<"m1", "p1">>]

\* C3 as claimed: whatever the delivery order, once the message event of a
\* message m of the selected session and part events for it have been
\* handled, and no removal named m, the transcript holds m with each of
\* those parts.
C3_AnyOrderKeepsParts ==
  \A m \in seen.msgs \ seen.removed :
    \A p \in PartIds :
      (<<m, p>> \in seen.dropped \/ <<m, p>> \in DOMAIN seen.after)
      => /\ Len(StoredMessage(messages, m)) = 1
         /\ Len(WithId(StoredMessage(messages, m)[1].parts, p)) = 1

\* C3 amended: once the message event of a message m of the selected session
\* has been handled and no removal named m, the transcript holds m once; a
\* part whose created/updated event was handled after m's message event is
\* in m's part list, once, as its last such event gave it; a part whose
\* events were all handled before m's message event is not in the list.
C3_PartsAfterMessageKept ==
  \A m \in seen.msgs \ seen.removed :
    /\ Len(StoredMessage(messages, m)) = 1
    /\ \A p \in PartIds :
         WithId(StoredMessage(messages, m)[1].parts, p) =
           IF <<m, p>> \in DOMAIN seen.after THEN << seen.after[<<m, p>>] >> ELSE <<>>

\* C3 witness: m1's message event was handled; p1 arrived after it and is
\* stored, p2 arrived only before it and is absent.
C3_Witness ==
  /\ "m1" \in seen.msgs \ seen.removed
  /\ <<"m1", "p1">> \in DOMAIN seen.after
  /\ <<"m1", "p2">> \in seen.dropped
  /\ Len(StoredMessage(messages, "m1")) = 1
  /\ StoredMessage(messages, "m1")[1].parts = << seen.after[<<"m1", "p1">>] >>

\* C11: every part of the transcript is in the part list of a stored
\* message whose id is the part's messageID, whatever message, part and
\* removal events have been handled.
C11_PartsHaveOwner ==
  \A i \in 1..Len(messages) :
    \A k \in 1..Len(messages[i].parts) :
      messages[i].parts[k].messageID = messages[i].info.id

\* C11 witness: m1 and m2 are stored, m1 holds two parts, one of which had
\* been dropped when it first arrived before m1; a removal event has named
\* m2, which holds no part.
C11_Witness ==
  /\ Len(messages) = 2
  /\ messages[1].info.id = "m1" /\ messages[2].info.id = "m2"
  /\ Len(messages[1].parts) = 2
  /\ messages[2].parts = <<>>
  /\ "m2" \in seen.removed
  /\ <<"m1", "p1">> \in seen.late

\* seq without its k-th entry.
Without(seq, k) == SubSeq(seq, 1, k - 1) \o SubSeq(seq, k + 1, Len(seq))

\* C13: on any transcript, removePart(messages, m, p) takes the part with
\* id p out of the part list of the message with id m and leaves the rest
\* of that list, that message's info and every other message as they were;
\* it gives back the transcript as it was when m is not stored or has no
\* part p; and a second application changes nothing more.
C13_RemovePartExactAndIdempotent ==
  \A m \in MsgIds : \A p \in PartIds :
    LET r == removePart(messages, m, p)
        present == \E i \in 1..Len(messages) :
                     /\ messages[i].info.id = m
                     /\ \E k \in 1..Len(messages[i].parts) : messages[i].parts[k].id = p
    IN /\ Len(r) = Len(messages)
       /\ ~present => r = messages
       /\ \A i \in 1..Len(messages) :
            /\ r[i].info = messages[i].info
            /\ messages[i].info.id # m => r[i] = messages[i]
            /\ \A k \in 1..Len(messages[i].parts) :
                 (messages[i].info.id = m /\ messages[i].parts[k].id = p)
                 => r[i].parts = Without(messages[i].parts, k)
       /\ removePart(r, m, p) = r

\* C13 witness: a removal event has taken a part out of m1, which still
\* holds p2 and then p1; m2 holds both parts.
C13_Witness ==
  /\ "m1" \in seen.removed
  /\ Len(messages) = 2
  /\ messages[1].info.id = "m1" /\ messages[2].info.id = "m2"
  /\ Len(messages[1].parts) = 2 /\ messages[1].parts[1].id = "p2"
  /\ Len(messages[2].parts) = 2

----------------------------------------------------------------------------
(* Permission events and the re-fetches they start *)

InitPermissions == InitOpened(Null) /\ InitHistory

NextPermissions ==
  \/ Tick
  \/ \E evt \in PermissionEvents : OnPermissionEvent(evt) \/ OnOtherEvent(evt)
  \/ \E list \in PermissionLists : LoopPermissionsResolved(list)
  \/ LoopPermissionsFailed

SpecPermissions == InitPermissions /\ [][NextPermissions]_vars

\* C5: a refresh that reconciles the server list L with the held list P at
\* time now leaves a pending list with L's entries in L's order, where an
\* entry whose id P held carries P's receivedAt for that id and every other
\* entry carries now.
C5_ReconcileKeepsKnownAges ==
  lastRefresh # NoRefresh =>
    LET L == lastRefresh.list
        P == lastRefresh.before
    IN /\ Len(pendingPermissions) = Len(L)
       /\ \A i \in 1..Len(L) :
            /\ pendingPermissions[i].id = L[i].id
            /\ pendingPermissions[i].sessionID = L[i].sessionID
            /\ pendingPermissions[i].patterns = L[i].patterns
            /\ \A j \in 1..Len(P) :
                 P[j].id = L[i].id => pendingPermissions[i].receivedAt = P[j].receivedAt
            /\ (\A j \in 1..Len(P) : P[j].id # L[i].id)
                 => pendingPermissions[i].receivedAt = lastRefresh.at

\* C5 witness: the list held perm1 received at time 1, and a refresh at time
\* 3 returned perm1 and perm2: perm1 keeps 1, perm2 gets 3.
C5_Witness ==
  /\ lastRefresh # NoRefresh
  /\ Len(lastRefresh.before) = 1
  /\ lastRefresh.before[1].id = "perm1" /\ lastRefresh.before[1].receivedAt = 1
  /\ lastRefresh.at = 3
  /\ Len(pendingPermissions) = 2
  /\ pendingPermissions[1].id = "perm1" /\ pendingPermissions[1].receivedAt = 1
  /\ pendingPermissions[2].id = "perm2" /\ pendingPermissions[2].receivedAt = 3

\* C6 as claimed: whenever a permission id is in the pending list, its
\* receivedAt is the time of the first refresh of this connection that
\* returned the id.
C6_ReceivedAtIsFirstSeen ==
  \A i \in 1..Len(pendingPermissions) :
    pendingPermissions[i].receivedAt = firstSeen[pendingPermissions[i].id]

----------------------------------------------------------------------------
(* Switching sessions while todo events arrive *)

InitSwitch == InitOpened(Null) /\ InitHistory

\* The permission lists of this specification.
FewPermissionLists == { l \in PermissionLists : \A i \in 1..Len(l) : l[i].patterns = "a" /\ l[i].id = "perm1" }

NextSwitch ==
  \/ \E sessionID \in SessionIds : selectSession(sessionID)
  \/ \E t \in tasks : \E msgs \in ServerHistories(t.sessionID) : SelectMessagesResolved(t, msgs)
  \/ \E t \in tasks : SelectMessagesFailed(t)
  \/ \E t \in tasks : \E snapshot \in ServerTodos(t.sessionID) : SelectTodoResolved(t, snapshot)
  \/ \E t \in tasks : SelectTodoFailed(t)
  \/ \E t \in tasks : \E list \in FewPermissionLists : SelectPermissionsResolved(t, list)
  \/ \E t \in tasks : SelectPermissionsFailed(t)
  \/ \E t \in tasks : \E snapshot \in ServerTodos(t.sessionID) : LoopTodoResolved(t, snapshot)
  \/ \E t \in tasks : LoopTodoFailed(t)
  \/ \E evt \in TodoEvents : OnTodoEvent(evt) \/ OnOtherEvent(evt)

SpecSwitch == InitSwitch /\ [][NextSwitch]_vars

\* C4 as claimed: when a fetch that was issued for a session resolves (or
\* fails) while another session is the selected one, the step leaves
\* messages, todos and the per-session model maps as they were.
C4_StaleFetchDiscarded ==
  [][\A t \in tasks :
       (t \notin tasks' /\ t.sessionID # selectedSessionId)
       => UNCHANGED <<messages, todos, sessionModelById, sessionModelOverrideById>>]_vars

----------------------------------------------------------------------------
(* The model resolver: the picker, prompts, session switches, message events *)

\* connectToServer has refreshed the pending permissions once (none pending).
InitModel ==
  /\ InitOpened(Null)
  /\ lastEvt = [evt |-> NoEvent, bit |-> 0]
  /\ lastPayload = [id \in SessionIds |-> NoSession]
  /\ seen = [msgs |-> {}, skipped |-> {}, dropped |-> {}, after |-> EmptyMap, late |-> {},
             removed |-> {}]
  /\ firstSeen = EmptyMap
  /\ lastRefresh = [list |-> <<>>, before |-> <<>>, at |-> 0]
  /\ fetched = NoFetch
  /\ returned = NotReturned

\* The message event of this specification: a user message of s1 that
\* carries a model.
ModelEvents ==
  { [type |-> "message.updated",
     properties |-> [info |-> UserInfo("m1", [providerID |-> "anthropic", modelID |-> "claude"])]] }

\* The histories session.messages returns in this specification: s1's
\* names a model, s2's does not.
ModelHistories(sessionID) ==
  IF sessionID = "s1"
  THEN { << Bare(UserInfo("m1", [providerID |-> "anthropic", modelID |-> "claude"])),
            Bare(AssistantInfo("m2")) >> }
  ELSE { << Bare(UserInfo("m3", NoModel)) >> }

NextModel ==
  \/ openSessionModelPicker
  \/ openDefaultModelPicker
  \/ closeModelPicker
  \/ \E next \in PickerOptions : applyModelSelection(next)
  \/ \E sessionID \in SessionIds :
       Cardinality(UserTasks) < MaxModelTasks /\ selectSession(sessionID)
  \/ \E t \in tasks : \E msgs \in ModelHistories(t.sessionID) : SelectMessagesResolved(t, msgs)
  \/ \E t \in tasks : SelectMessagesFailed(t)
  \/ \E t \in tasks : SelectTodoResolved(t, <<>>)
  \/ \E t \in tasks : SelectTodoFailed(t)
  \/ \E t \in tasks : SelectPermissionsResolved(t, <<>>)
  \/ \E t \in tasks : SelectPermissionsFailed(t)
  \/ Cardinality(UserTasks) < MaxModelTasks /\ sendPrompt
  \/ \E t \in tasks : SendPromptResolved(t)
  \/ \E t \in tasks : SendFailed(t, [kind |-> "Error", message |-> "Failed to fetch"])
  \/ \E t \in tasks : \E msgs \in ModelHistories(t.sessionID) : SendMessagesResolved(t, msgs)
  \/ \E t \in tasks : SendTodoResolved(t, <<>>)
  \/ \E t \in tasks : SendTodoFailed(t)
  \/ \E t \in tasks : SendSessionsResolved(t, ServerSessions)
  \/ \E evt \in ModelEvents : OnMessageEvent(evt)

SpecModel == InitModel /\ [][NextModel]_vars

\* C35: every message of the transcript belongs to the selected session,
\* also while the history fetch of a session switch is in flight and message
\* events arrive.
C35_TranscriptOfSelectedSession ==
  \A i \in 1..Len(messages) : messages[i].info.sessionID = selectedSessionId

\* The positions of messages whose info is a user message carrying a model.
UserModelPositions == {i \in 1..Len(messages) : modelFromUserMessage(messages[i].info) # NoModel}

\* C7: the model resolved for the selected session is the session's
\* override if it has one; else its last-known model if it has one; else the
\* model of the last user message of the transcript that carries one; else
\* the default model.  With no session selected it is the default model.
C7_ModelPrecedence ==
  LET id == selectedSessionId
      M  == selectedSessionModel
  IN IF id = Null THEN M = defaultModel
     ELSE /\ id \in DOMAIN sessionModelOverrideById => M = sessionModelOverrideById[id]
          /\ (id \notin DOMAIN sessionModelOverrideById /\ id \in DOMAIN sessionModelById)
               => M = sessionModelById[id]
          /\ (id \notin DOMAIN sessionModelOverrideById /\ id \notin DOMAIN sessionModelById)
               => IF UserModelPositions # {}
                  THEN \E i \in UserModelPositions :
                         /\ \A j \in UserModelPositions : j <= i
                         /\ M = messages[i].info.model
                  ELSE M = defaultModel

\* The selected session has an override and a different last-known model,
\* and the override is what is resolved.
C7_Witness ==
  /\ selectedSessionId = "s1"
  /\ "s1" \in DOMAIN sessionModelOverrideById
  /\ "s1" \in DOMAIN sessionModelById
  /\ sessionModelById["s1"] = [providerID |-> "anthropic", modelID |-> "claude"]
  /\ sessionModelOverrideById["s1"] = [providerID |-> "opencode", modelID |-> "big-pickle"]
  /\ selectedSessionModel = [providerID |-> "opencode", modelID |-> "big-pickle"]

\* C8: when sendPrompt's session.prompt call succeeds for session s with the
\* model M resolved at the call, the last-known model of s becomes M and s
\* has no override, so that resolving for s gives M; the override and the
\* last-known model of every other session stay as they were.  M is the
\* model resolved when sendPrompt started.
C8_SendMakesModelLastKnown ==
  [][/\ \A t \in tasks' \ tasks :
          (t.op = "send" /\ t.pc = "prompt") => t.model = selectedSessionModel
     /\ \A t \in tasks :
          (t.op = "send" /\ t.pc = "prompt" /\ [t EXCEPT !.pc = "messages"] \in tasks')
          => /\ t.sessionID \in DOMAIN sessionModelById'
             /\ sessionModelById'[t.sessionID] = t.model
             /\ t.sessionID \notin DOMAIN sessionModelOverrideById'
             /\ selectedSessionId' = t.sessionID => selectedSessionModel' = t.model
             /\ \A s \in SessionIds \ {t.sessionID} :
                  /\ s \in DOMAIN sessionModelById' <=> s \in DOMAIN sessionModelById
                  /\ s \in DOMAIN sessionModelById => sessionModelById'[s] = sessionModelById[s]
                  /\ s \in DOMAIN sessionModelOverrideById' <=> s \in DOMAIN sessionModelOverrideById
                  /\ s \in DOMAIN sessionModelOverrideById
                       => sessionModelOverrideById'[s] = sessionModelOverrideById[s]]_vars

\* A prompt of s1 sent with the picked model has succeeded: the picked model
\* is s1's last-known model although s1's history names another, s1 has no
\* override, and s2 still has its own.
C8_Witness ==
  \E t \in tasks :
    /\ t.op = "send" /\ t.pc = "messages" /\ t.sessionID = "s1"
    /\ t.model = [providerID |-> "opencode", modelID |-> "big-pickle"]
    /\ selectedSessionId = "s1"
    /\ "s1" \in DOMAIN sessionModelById /\ sessionModelById["s1"] = t.model
    /\ "s1" \notin DOMAIN sessionModelOverrideById
    /\ selectedSessionModel = t.model
    /\ lastUserModelFromMessages(messages) = [providerID |-> "anthropic", modelID |-> "claude"]
    /\ "s2" \in DOMAIN sessionModelOverrideById

\* C9: the override of a session comes to exist, or changes, only by a
\* choice in the picker opened for the session while that session is
\* selected, and ceases to exist only when a prompt of that session has been
\* sent; so from the choice until the session's next prompt the model
\* resolved for the session is the chosen one.
C9_OverrideOnlyByPickerAndSend ==
  [][\A s \in SessionIds :
       LET had  == s \in DOMAIN sessionModelOverrideById
           has  == s \in DOMAIN sessionModelOverrideById'
           pick == /\ modelPickerOpen /\ ~modelPickerOpen'
                   /\ modelPickerTarget = "session"
                   /\ selectedSessionId = s
           sent == \E t \in tasks :
                     /\ t.op = "send" /\ t.pc = "prompt" /\ t.sessionID = s
                     /\ [t EXCEPT !.pc = "messages"] \in tasks'
       IN /\ (has /\ ~had) => pick
          /\ (has /\ had /\ sessionModelOverrideById'[s] # sessionModelOverrideById[s]) => pick
          /\ (had /\ ~has) => sent]_vars

----------------------------------------------------------------------------
(* waitForHealthy against a server that may never become healthy *)

InitHealth == InitSignals /\ InitHistory

\* connectToServer passes timeoutMs 12_000 and leaves pollMs at 250: here
\* a timeout of 1..MaxTime units of time and a poll interval of 1 or 2.
NextHealth ==
  \/ \E timeoutMs \in 1..MaxTime, pollMs \in 1..2 : waitForHealthy(timeoutMs, pollMs)
  \/ \E result \in HealthResults : HealthResolved(result)
  \/ \E thrown \in HealthRejections : HealthRejected(thrown)
  \/ HealthPollTimer
  \/ Tick

SpecHealth == InitHealth /\ [][NextHealth]_vars

\* The poll answered with a payload that reports healthy.
IsHealthy(poll) ==
  HasField(poll, "resolved") /\ HasField(poll.resolved, "data") /\ poll.resolved.data.healthy

----------------------------------------------------------------------------
(* The store under session, message, part and removal events together *)

InitStore ==
  /\ \E selected \in {"s1", Null} : InitOpened(selected)
  /\ InitHistory

\* The events of this specification: session.updated with a busy payload
\* under the second title, assistant messages (m1 and m2 of s1, m3 of s2),
\* parts of m1 and m2 of one text.
StoreEvents ==
  { e \in SessionEvents :
      /\ e.type = "session.updated"
      /\ HasField(e.properties, "info")
      /\ e.properties.info.title = "t2" /\ e.properties.info.status = "busy" }
  \cup { e \in MessageEvents :
           /\ HasField(e.properties, "info")
           /\ e.properties.info.role = "assistant" }
  \cup { e \in PartEvents :
           \A f \in DOMAIN e.properties :
             e.properties[f].text = "hi" /\ e.properties[f].messageID \in {"m1", "m2"} }
  \cup { e \in RemovalEvents : e.properties.messageID \in {"m1", "m2"} }

NextStore ==
  \E evt \in StoreEvents :
    \/ OnSessionEvent(evt)
    \/ OnMessageEvent(evt)
    \/ OnPartEvent(evt)
    \/ OnPartRemoved(evt)
    \/ OnMessageRemoved(evt)
    \/ OnOtherEvent(evt)

SpecStore == InitStore /\ [][NextStore]_vars

\* No two entries of the list have the same id.
UniqueIds(list) == \A i, j \in 1..Len(list) : list[i].id = list[j].id => i = j

\* C12: session ids are unique in the session list, message ids in the
\* transcript, and part ids in each message's part list, whatever events
\* the primitives have been applied for.
C12_IdsStayUnique ==
  /\ UniqueIds(sessions)
  /\ \A i, j \in 1..Len(messages) : messages[i].info.id = messages[j].info.id => i = j
  /\ \A i \in 1..Len(messages) : UniqueIds(messages[i].parts)

\* C12 witness: both sessions have been upserted over their listed entries,
\* both messages hold both parts, and a part event has been handled for a
\* part already stored.
C12_Witness ==
  /\ lastPayload["s1"] # NoSession /\ lastPayload["s2"] # NoSession
  /\ Len(sessions) = 2
  /\ Len(messages) = 2
  /\ Len(messages[1].parts) = 2 /\ Len(messages[2].parts) = 2
  /\ seen.msgs = {"m1", "m2"}

\* C15: on any transcript, upsertMessage(messages, info) for the id of a
\* stored message gives that message, at its position, the new info and the
\* part list it had; for a new id it adds a message with info and no parts
\* at the end; every other message is as it was.
C15_UpsertMessageKeepsParts ==
  \A info \in MsgInfos :
    LET r == upsertMessage(messages, info)
    IN IF \E i \in 1..Len(messages) : messages[i].info.id = info.id
       THEN /\ Len(r) = Len(messages)
            /\ \A i \in 1..Len(messages) :
                 r[i] = IF messages[i].info.id = info.id
                        THEN [info |-> info, parts |-> messages[i].parts]
                        ELSE messages[i]
       ELSE /\ Len(r) = Len(messages) + 1
            /\ r[Len(r)] = [info |-> info, parts |-> <<>>]
            /\ SubSeq(r, 1, Len(messages)) = messages

\* C15 witness: m1 is stored first and holds two parts, m2 follows it; its
\* message event has been handled.
C15_Witness ==
  /\ Len(messages) = 2
  /\ messages[1].info.id = "m1" /\ messages[2].info.id = "m2"
  /\ Len(messages[1].parts) = 2
  /\ messages[2].parts = <<>>
  /\ "m1" \in seen.msgs

\* C16: on any transcript, upsertPart(messages, part) for a part of a stored
\* message puts part at the index of the part with its id in that message's
\* part list, or at the end of the list when the list has no part with that
\* id; the other parts keep their places, the message its info, and every
\* other message is as it was.
C16_UpsertPartInPlaceOrAppend ==
  \A part \in Parts :
    LET r == upsertPart(messages, part)
    IN /\ Len(r) = Len(messages)
       /\ \A i \in 1..Len(messages) :
            LET old == messages[i].parts
            IN /\ r[i].info = messages[i].info
               /\ messages[i].info.id # part.messageID => r[i] = messages[i]
               /\ messages[i].info.id = part.messageID
                    => IF \E k \in 1..Len(old) : old[k].id = part.id
                       THEN /\ Len(r[i].parts) = Len(old)
                            /\ \A k \in 1..Len(old) :
                                 r[i].parts[k] = IF old[k].id = part.id THEN part ELSE old[k]
                       ELSE r[i].parts = Append(old, part)

\* C16 witness: m2 holds p2 and then p1, the order their first events came
\* in; m1, stored before it, holds p1.
C16_Witness ==
  /\ Len(messages) = 2
  /\ messages[1].info.id = "m1" /\ messages[2].info.id = "m2"
  /\ Len(messages[1].parts) = 1 /\ messages[1].parts[1].id = "p1"
  /\ Len(messages[2].parts) = 2
  /\ messages[2].parts[1].id = "p2" /\ messages[2].parts[2].id = "p1"

\* C17: a step of the loop that handles a message.created or
\* message.updated event whose message is of another session than the
\* selected one, or that is handled while no session is selected, leaves
\* the transcript as it was.
C17_OtherSessionMessageIgnored ==
  [][\A evt \in MessageEvents :
       (/\ HasField(evt.properties, "info")
        /\ selectedSessionId = Null \/ evt.properties.info.sessionID # selectedSessionId
        /\ OnMessageEvent(evt))
       => messages' = messages]_vars

\* C17 witness: with s1 selected, message events for m1 (of s1) and for m3
\* (of s2) have been handled, and the transcript holds m1 only.
C17_Witness ==
  /\ selectedSessionId = "s1"
  /\ "m1" \in seen.msgs /\ "m3" \in seen.skipped
  /\ Len(messages) = 1 /\ messages[1].info.id = "m1"

----------------------------------------------------------------------------
(* The read loop of subscribe() on a byte stream                           *)

InitReader ==
  /\ app = "ext"
  /\ client = "c1"
  /\ sessions = <<>>
  /\ sessionStatusById = EmptyMap
  /\ selectedSessionId = Null
  /\ messages = <<>>
  /\ todos = <<>>
  /\ pendingPermissions = <<>>
  /\ now = 0
  /\ defaultModel = DEFAULT_MODEL
  /\ modelPickerTarget = "session"
  /\ modelPickerOpen = FALSE
  /\ sessionModelOverrideById = EmptyMap
  /\ sessionModelById = EmptyMap
  /\ busy = FALSE
  /\ error = Null
  /\ tasks = {}
  /\ probe = NoProbe
  /\ sseConnected = TRUE
  /\ permissionReplyBusy = FALSE
  /\ sub = Reading("c1")
  /\ connectedVersion = ServerVersion
  /\ reader \in [stream : Streams, run : [Runs -> {NewRun}]]
  /\ InitHistory

NextReader ==
  \/ \E r \in Runs : SseRead(r)
  \/ \E r \in Runs : SseDone(r)

SpecReader == InitReader /\ [][NextReader]_vars

\* C20: two readings of the same bytes, however each was cut into chunks,
\* have logged the same events whenever no newline lies between the
\* positions they have reached: the events depend on the bytes up to the
\* last newline read and on nothing else, so two readings that are through
\* the stream hold equal event sequences, and the bytes of a line add no
\* event before the line's newline is read.
C20_EventsIndependentOfChunking ==
  \A a \in Runs, b \in Runs :
    (/\ reader.run[a].pos <= reader.run[b].pos
     /\ \A i \in (reader.run[a].pos + 1)..reader.run[b].pos : reader.stream[i] # "\n")
    => reader.run[a].events = reader.run[b].events

\* C20 witness: a stream of two events and an unterminated third line has
\* been read to its end twice, once in chunks that ended at the ends of
\* lines only and once in chunks that ended inside a line and inside a
\* character, and both readings hold the two events.
C20_Witness ==
  /\ reader.stream = EventA \o <<"\n">> \o EventE \o <<"\n">> \o EventA
  /\ reader.run[1].done /\ reader.run[2].done
  /\ reader.run[1].cuts = {} /\ reader.run[2].cuts = {"line", "char"}
  /\ reader.run[1].events = << [type |-> <<"a">>, properties |-> Undefined],
                               [type |-> <<"U+00E9">>, properties |-> Undefined] >>
  /\ reader.run[2].events = reader.run[1].events
  /\ reader.run[1].buffer = EventA /\ reader.run[2].buffer = EventA

----------------------------------------------------------------------------
(* The read loop on a stream that carries lines without a record           *)

InitLines ==
  /\ app = "ext"
  /\ client = "c1"
  /\ sessions = <<>>
  /\ sessionStatusById = EmptyMap
  /\ selectedSessionId = Null
  /\ messages = <<>>
  /\ todos = <<>>
  /\ pendingPermissions = <<>>
  /\ now = 0
  /\ defaultModel = DEFAULT_MODEL
  /\ modelPickerTarget = "session"
  /\ modelPickerOpen = FALSE
  /\ sessionModelOverrideById = EmptyMap
  /\ sessionModelById = EmptyMap
  /\ busy = FALSE
  /\ error = Null
  /\ tasks = {}
  /\ probe = NoProbe
  /\ sseConnected = TRUE
  /\ permissionReplyBusy = FALSE
  /\ sub = Reading("c1")
  /\ connectedVersion = ServerVersion
  /\ \E m \in MixedStreams :
       reader = [stream |-> m.stream, lines |-> m.lines, run |-> [r \in Runs |-> NewRun]]
  /\ InitHistory

\* One reading of the stream.
NextLines ==
  \/ SseRead(1)
  \/ SseDone(1)

SpecLines == InitLines /\ [][NextLines]_vars

\* The record of a line: the event of each of the two record lines, none for
\* every other line.
RecordOf(line) ==
  IF line = EventA THEN << [type |-> <<"a">>, properties |-> Undefined] >>
  ELSE IF line = EventE THEN << [type |-> <<"U+00E9">>, properties |-> Undefined] >>
  ELSE <<>>

RECURSIVE RecordsOf(_)
RecordsOf(ls) == IF ls = <<>> THEN <<>> ELSE RecordOf(Head(ls)) \o RecordsOf(Tail(ls))

\* The lines whose newline has been read when pos bytes have been.
LinesRead(pos) ==
  SubSeq(reader.lines, 1, Cardinality({i \in 1..pos : reader.stream[i] = "\n"}))

\* C21: the events the loop has logged are the records of the lines read so
\* far, in order, whatever data lines with an empty payload, the literal
\* [DONE] or a document that does not parse lie among them: such a line
\* adds no event, the records after it are still logged, the loop goes on
\* to the end of the stream, and the error state and the live flag stay as
\* they were.
C21_DroppedLineIsSkipped ==
  /\ reader.run[1].events = RecordsOf(LinesRead(reader.run[1].pos))
  /\ error = Null /\ sseConnected = TRUE
  /\ sub = Reading("c1")
  /\ ~reader.run[1].done => reader.run[1].pos < Len(reader.stream) \/ ENABLED SseDone(1)

\* C21 witness: a stream of a document that does not parse and, after it, a
\* record has been read to its end in chunks that ended inside lines, and
\* the log holds the record.
C21_Witness ==
  /\ reader.lines = <<BrokenLine, EventA>>
  /\ reader.run[1].done
  /\ "line" \in reader.run[1].cuts
  /\ reader.run[1].events = << [type |-> <<"a">>, properties |-> Undefined] >>

----------------------------------------------------------------------------
(* normalizeEvent on the records of a stream                               *)

InitNormalize ==
  /\ app \in Apps
  /\ InitLive
  /\ reader \in [raw : RawRecords, event : {Pending}]
  /\ InitHistory

NextNormalize == NormalizeRecord

SpecNormalize == InitNormalize /\ [][NextNormalize]_vars

\* The record is an object whose type is a string.
HasStringType(v) ==
  /\ v.kind = "object"
  /\ "type" \in DOMAIN v.fields
  /\ v.fields.type.kind = "string"

\* The properties of an object, undefined when it has none.
PropertiesOf(v) ==
  IF "properties" \in DOMAIN v.fields THEN v.fields.properties ELSE Undefined

\* C22: the event normalizeEvent gives for a record has the type and the
\* properties of the top level when the record is an object with a string
\* type there, a payload of its own or not; else those of record.payload
\* when that is an object with a string type; and is null for every other
\* record, the values that are no objects among them.
C22_NormalizeEventShapes ==
  reader.event # Pending =>
    LET raw == reader.raw
        nested == /\ raw.kind = "object"
                  /\ "payload" \in DOMAIN raw.fields
                  /\ HasStringType(raw.fields.payload)
    IN IF HasStringType(raw)
       THEN reader.event = [type |-> raw.fields.type.text, properties |-> PropertiesOf(raw)]
       ELSE IF nested
            THEN reader.event = [type |-> raw.fields.payload.fields.type.text,
                                 properties |-> PropertiesOf(raw.fields.payload)]
            ELSE reader.event = NullEvent

\* C22 witness: a record with a string type a and properties at the top
\* level and a payload with a string type b and properties of its own has
\* been normalized to the event of type a with the top-level properties.
C22_Witness ==
  /\ reader.raw = Obj([type |-> Str(<<"a">>), properties |-> TopProperties,
                       payload |-> Obj([type |-> Str(<<"b">>),
                                        properties |-> PayloadProperties])])
  /\ reader.event = [type |-> <<"a">>, properties |-> TopProperties]

----------------------------------------------------------------------------
(* Connections and their subscriptions                                     *)

InitStream == InitSignals /\ InitHistory

\* The records of the streams: the server's greeting and a session event.
StreamEvents ==
  ServerConnectedEvents \cup
  { [type |-> "session.created",
     properties |-> [info |-> [id |-> "s1", title |-> "t1", status |-> "busy"]]] }

NextStream ==
  \/ \E next \in ClientIds : connectToServer(next)
  \/ \E t \in tasks : ConnectHealthy(t)
  \/ \E t \in tasks : ConnectSessionsResolved(t, ServerSessions)
  \/ \E t \in tasks : ConnectPermissionsResolved(t, <<>>)
  \/ \E t \in tasks : \E thrown \in ConnectionFailures : ConnectFailed(t, thrown)
  \/ disconnect
  \/ \E hasBody \in BOOLEAN : SubscribeResolved(hasBody)
  \/ \E thrown \in ConnectionFailures \cup {AbortError} : SubscribeRejected(thrown)
  \/ \E thrown \in ConnectionFailures \cup {AbortError} : ReadRejected(thrown)
  \/ StreamEnded
  \/ \E evt \in StreamEvents : OnServerConnected(evt)
  \/ \E evt \in StreamEvents : OnSessionEvent(evt)
  \/ \E evt \in StreamEvents : OnOtherEvent(evt)

SpecStream == InitStream /\ [][NextStream]_vars

\* C23: while a client is set and no record of its stream has been handled
\* the live flag is false, and the step that handles the first record of
\* the stream leaves the live flag true.
C23_LiveOnFirstRecord ==
  /\ [](client # Null /\ lastEvt.evt = NoEvent => ~sseConnected)
  /\ [][lastEvt.evt = NoEvent /\ lastEvt'.evt # NoEvent => sseConnected']_vars

\* C24: the step in which a subscription whose abort signal is raised comes
\* to its end leaves the error state and the live flag as they were, and
\* the subscription's function has returned.
C24_AbortIsNoFailure ==
  [][(sub.cancelled /\ SubPending /\ sub'.pc \notin {"subscribing", "reading"})
       => /\ sub'.pc = "aborted"
          /\ error' = error
          /\ sseConnected' = sseConnected]_vars

\* C24 witness: the desktop application was live on c1, was disconnected,
\* and the subscription of c1 has come to its end with no error set.
C24_Witness ==
  /\ app = "desktop"
  /\ client = Null
  /\ sub = [pc |-> "aborted", client |-> "c1", cancelled |-> TRUE]
  /\ lastEvt.evt \in ServerConnectedEvents
  /\ error = Null

\* C25: the step in which the read loop of a subscription whose abort
\* signal is not raised comes to its end by a rejection leaves the live
\* flag false, and the subscription's function has returned; and the
\* subscription that has come to its end is replaced only by the
\* subscription of another client that a connectToServer has made.
C25_FailureEndsLive ==
  /\ [][(~sub.cancelled /\ sub.pc = "reading" /\ sub'.pc \in {"failed", "aborted"})
          => ~sseConnected']_vars
  /\ [][(sub.pc \in {"failed", "aborted", "ended", "returned"} /\ sub' # sub)
          => \E t \in tasks : /\ t.op = "connect" /\ t.pc = "health"
                               /\ t.client # sub.client
                               /\ sub' = Subscribing(t.client)]_vars

\* C33: the live flag is true only while the loop of the subscription reads
\* the stream: it is false once the stream has ended, the loop has failed or
\* the subscription has been cancelled.
C33_LiveOnlyWhileLoopReads ==
  sseConnected => sub.pc = "reading" /\ ~sub.cancelled

----------------------------------------------------------------------------
(* The re-fetches the loop starts on permission and todo events            *)

InitRefetch == (\E selected \in {"s1", Null} : InitOpened(selected)) /\ InitHistory

\* A permission event in each application's type name and a todo event for
\* each session, carrying that session's snapshot.
RefetchEvents ==
  { [type |-> t, properties |-> [id |-> "perm1"]] :
      t \in {"permission.updated", "permission.asked"} }
  \cup { [type |-> "todo.updated",
          properties |-> [sessionID |-> sid,
                          todos |-> << [id |-> "t1", content |-> sid, status |-> "pending",
                                        priority |-> "high"] >>]] : sid \in SessionIds }

\* The todo re-fetches of the loop that are in flight.
LoopTodos == {t \in tasks : t.op = "loop.todo"}

\* What a todo re-fetch of the loop returns: the session has todos, so a
\* re-fetch that returned differs from one that failed.
FetchedTodos(sessionID) == ServerTodos(sessionID) \ {<<>>}

NextRefetch ==
  \/ \E evt \in RefetchEvents : OnPermissionEvent(evt)
  \/ \E evt \in RefetchEvents : OnTodoEvent(evt)
  \/ \E evt \in RefetchEvents : OnOtherEvent(evt)
  \/ \E list \in FewPermissionLists : LoopPermissionsResolved(list)
  \/ LoopPermissionsFailed
  \/ \E t \in LoopTodos : \E snapshot \in FetchedTodos(t.sessionID) :
       LoopTodoResolved(t, snapshot)
  \/ \E t \in LoopTodos : LoopTodoFailed(t)
  \/ \E sessionID \in SessionIds : selectSession(sessionID)
  \/ \E t \in UserTasks : \E msgs \in ServerHistories(t.sessionID) :
       SelectMessagesResolved(t, msgs)
  \/ \E t \in UserTasks : SelectMessagesFailed(t)
  \/ \E t \in UserTasks : \E snapshot \in ServerTodos(t.sessionID) :
       SelectTodoResolved(t, snapshot)
  \/ \E t \in UserTasks : SelectTodoFailed(t)
  \/ \E t \in UserTasks : \E list \in FewPermissionLists : SelectPermissionsResolved(t, list)
  \/ \E t \in UserTasks : SelectPermissionsFailed(t)

SpecRefetch == InitRefetch /\ [][NextRefetch]_vars

\* A re-fetch that the loop started is in flight.
LoopRefetches == {t \in tasks : t.op \in {"loop.permissions", "loop.todo"}}

\* C26: while a re-fetch that the loop started on a permission or todo event
\* is in flight, the loop can handle the event that follows in the stream.
C26_LoopDoesNotWaitForRefetch ==
  LoopRefetches # {}
    => ENABLED (\E evt \in RefetchEvents :
                  OnPermissionEvent(evt) \/ OnTodoEvent(evt) \/ OnOtherEvent(evt))

\* C27: the step in which a todo re-fetch of the loop fails leaves the todo
\* list as it was, the step in which a permission re-fetch of the loop
\* fails leaves the pending permissions as they were, and after either the
\* loop handles events again.
C27_FailedRefetchKeepsState ==
  [][/\ \A t \in LoopTodos : LoopTodoFailed(t) => todos' = todos
     /\ LoopPermissionsFailed => pendingPermissions' = pendingPermissions
     /\ (LoopRefetches # {} /\ LoopRefetches' = {}) => LoopRuns']_vars

\* C28: a step that handles a permission event starts a re-fetch of the
\* permission list, and the step in which it resolves reconciles the list
\* it returned with the held one; a step that handles a todo event while a
\* session is selected starts a re-fetch of that session's todos, and while
\* none is selected changes nothing; and the step in which a todo re-fetch
\* resolves replaces the todo list by a snapshot of the selected session.
C28_RefetchOnPermissionAndTodoEvents ==
  [][/\ \A evt \in RefetchEvents :
          /\ OnPermissionEvent(evt)
                => \E t \in tasks' \ tasks : t.op = "loop.permissions"
          /\ OnTodoEvent(evt)
                => IF selectedSessionId = Null THEN UNCHANGED <<todos, tasks>>
                   ELSE \E t \in tasks' \ tasks :
                          t.op = "loop.todo" /\ t.sessionID = selectedSessionId
     /\ \A list \in FewPermissionLists :
          LoopPermissionsResolved(list)
            => pendingPermissions' = reconcile(pendingPermissions, list, now)
     /\ \A t \in LoopTodos : \A snapshot \in FetchedTodos(t.sessionID) :
          LoopTodoResolved(t, snapshot)
            => todos' = snapshot /\ t.sessionID = selectedSessionId]_vars

----------------------------------------------------------------------------
(* selectSession, one call at a time *)

InitSelect == InitOpened(Null) /\ InitHistory

\* The histories session.messages returns in this specification: those of
\* ServerHistories and, for s1, two where an earlier user message names
\* another model than the last one, or is the only one to name a model.
SelectHistories(sessionID) ==
  IF sessionID = "s1"
  THEN ServerHistories("s1")
       \cup { << Bare(UserInfo("m1", [providerID |-> "anthropic", modelID |-> "claude"])),
                 Bare(UserInfo("m2", [providerID |-> "openai", modelID |-> "gpt-5"])) >>,
              << Bare(UserInfo("m1", [providerID |-> "openai", modelID |-> "gpt-5"])),
                 Bare(UserInfo("m2", NoModel)) >> }
  ELSE ServerHistories(sessionID)

\* The lists permission.list() returns in this specification.
SelectPermissionLists ==
  { l \in PermissionLists : Len(l) > 0 => l[1].id = "perm1" /\ \A i \in 1..Len(l) : l[i].patterns = "a" }

NextSelect ==
  \/ \E sessionID \in SessionIds : UserTasks = {} /\ selectSession(sessionID)
  \/ \E t \in tasks : \E msgs \in SelectHistories(t.sessionID) : SelectMessagesResolved(t, msgs)
  \/ \E t \in tasks : SelectMessagesFailed(t)
  \/ \E t \in tasks : \E snapshot \in ServerTodos(t.sessionID) : SelectTodoResolved(t, snapshot)
  \/ \E t \in tasks : SelectTodoFailed(t)
  \/ \E t \in tasks : \E list \in SelectPermissionLists : SelectPermissionsResolved(t, list)
  \/ \E t \in tasks : SelectPermissionsFailed(t)
  \/ Tick

SpecSelect == InitSelect /\ [][NextSelect]_vars

\* The last call of selectSession has returned, without rejecting.
SelectCompleted == tasks = {} /\ fetched.hasHistory

\* The positions of the user messages of a history that carry a model.
ModelPositions(history) ==
  {i \in 1..Len(history) : history[i].info.role = "user" /\ history[i].info.model # NoModel}

\* C29: once a call selectSession(s) that nothing interleaved with has
\* completed, s is the selected session, the transcript is the history the
\* call fetched, the todo list is the todo snapshot it fetched, the pending
\* permissions are the permission list it fetched (a request that was
\* pending before with the time it had, a new one with the time of the
\* fetch), and, when a user message of the fetched
\* history carries a model, the last-known model of s is that of the most
\* recent such message.
C29_SelectSessionLoadsSession ==
  SelectCompleted =>
    /\ selectedSessionId = fetched.sessionID
    /\ messages = fetched.history
    /\ fetched.hasSnapshot => todos = fetched.snapshot
    /\ fetched.hasList =>
         /\ Len(pendingPermissions) = Len(fetched.list)
         /\ \A i \in 1..Len(fetched.list) :
              /\ pendingPermissions[i].id = fetched.list[i].id
              /\ pendingPermissions[i].sessionID = fetched.list[i].sessionID
              /\ pendingPermissions[i].patterns = fetched.list[i].patterns
              /\ LET held == {j \in 1..Len(lastRefresh.before) :
                                 lastRefresh.before[j].id = fetched.list[i].id}
                 IN pendingPermissions[i].receivedAt =
                      IF held = {} THEN lastRefresh.at
                      ELSE lastRefresh.before[CHOOSE j \in held : TRUE].receivedAt
    /\ ModelPositions(fetched.history) # {} =>
         /\ fetched.sessionID \in DOMAIN sessionModelById
         /\ \E i \in ModelPositions(fetched.history) :
              /\ \A j \in ModelPositions(fetched.history) : j <= i
              /\ sessionModelById[fetched.sessionID] = fetched.history[i].info.model

\* A second call selectSession("s1") has completed: the fetched history has
\* two user messages naming different models and the session's last-known
\* model, claude before, is now that of the later one; the fetched todo
\* snapshot and permission list are not empty, and one of the two pending
\* requests was first received earlier than the other.
C29_Witness ==
  /\ SelectCompleted
  /\ fetched.sessionID = "s1"
  /\ Len(fetched.history) = 2
  /\ fetched.history[1].info.model = [providerID |-> "anthropic", modelID |-> "claude"]
  /\ fetched.history[2].info.role = "user"
  /\ sessionModelById["s1"] = [providerID |-> "openai", modelID |-> "gpt-5"]
  /\ fetched.hasSnapshot /\ Len(todos) = 1
  /\ fetched.hasList /\ Len(pendingPermissions) = 2
  /\ pendingPermissions[1].receivedAt < pendingPermissions[2].receivedAt

----------------------------------------------------------------------------
(* Prompts and permission replies that fail *)

InitFailures == InitOpened("s1") /\ InitHistory

\* The permission event and the permission lists of this specification: the
\* server asks for one permission, which is pending until it is replied to.
AskedEvents == {evt \in PermissionEvents : evt.type \in {"permission.updated", "permission.asked"}}
AskedLists == {l \in FewPermissionLists : Len(l) <= 1}

ReplyTasks == {t \in tasks : t.op = "reply"}

NextFailures ==
  \/ openSessionModelPicker
  \/ \E next \in PickerOptions : applyModelSelection(next)
  \/ Cardinality(UserTasks) < MaxModelTasks /\ sendPrompt
  \/ \E t \in UserTasks : SendPromptResolved(t)
  \/ \E t \in UserTasks : \E thrown \in PromptFailures : SendFailed(t, thrown)
  \/ \E t \in UserTasks : \E msgs \in ModelHistories(t.sessionID) : SendMessagesResolved(t, msgs)
  \/ \E t \in UserTasks : SendTodoResolved(t, <<>>)
  \/ \E t \in UserTasks : SendTodoFailed(t)
  \/ \E t \in UserTasks : SendSessionsResolved(t, ServerSessions)
  \/ \E evt \in AskedEvents : OnPermissionEvent(evt)
  \/ \E list \in AskedLists : LoopPermissionsResolved(list)
  \/ LoopPermissionsFailed
  \/ \E requestID \in PermIds : \E reply \in Replies : respondPermission(requestID, reply)
  \/ \E t \in ReplyTasks : \E result \in ReplyResults : ReplyResolved(t, result)
  \/ \E t \in ReplyTasks : ReplyRejected(t, FetchFailure)
  \/ \E t \in ReplyTasks : \E list \in AskedLists : ReplyPermissionsResolved(t, list)

SpecFailures == InitFailures /\ [][NextFailures]_vars

\* The messages of the failures of session.prompt and of permission.reply.
PromptMessages == {"session is busy", "Failed to fetch"}
ReplyMessages == {"request not found", "Unknown error", "Failed to fetch"}

\* C30: a step in which the session.prompt call of sendPrompt fails sets the
\* error to the failure's message, clears busy, starts no other call, and
\* leaves the sessions' last-known models and overrides as they were; a
\* step in which the permission.reply call of respondPermission fails sets
\* the error to the failure's message, clears permissionReplyBusy and starts
\* no other call.
C30_FailedCallReportsAndClears ==
  [][/\ \A t \in UserTasks :
          (t.op = "send" /\ t.pc = "prompt" /\ \A u \in tasks' : u.op # "send")
          => /\ error' \in PromptMessages
             /\ busy' = FALSE
             /\ tasks' = tasks \ {t}
             /\ UNCHANGED <<sessionModelById, sessionModelOverrideById>>
     /\ \A t \in ReplyTasks :
          (t.pc = "reply" /\ \A u \in tasks' : u.op # "reply")
          => /\ error' \in ReplyMessages
             /\ permissionReplyBusy' = FALSE
             /\ tasks' = tasks \ {t}]_vars

\* sendPrompt has failed at session.prompt for a session that has an
\* override and another last-known model: both are still there, busy is
\* cleared, and a permission request is pending.
C30_Witness ==
  /\ error = "session is busy"
  /\ ~busy
  /\ UserTasks = {}
  /\ "s1" \in DOMAIN sessionModelOverrideById
  /\ "s1" \in DOMAIN sessionModelById
  /\ sessionModelOverrideById["s1"] # sessionModelById["s1"]
  /\ Len(pendingPermissions) = 1

\* C36: at most one call of respondPermission is in flight, and
\* permissionReplyBusy is true exactly while it is; a click on a button of
\* the prompt starts a reply whenever the flag is false, whatever busy is;
\* the step that ends a reply, with or without a failure, sets the flag back
\* to false; and no step of a reply changes busy.
C36_OneReplyInFlight ==
  /\ [](/\ Cardinality(ReplyTasks) <= 1
        /\ permissionReplyBusy <=> ReplyTasks # {}
        /\ (client # Null /\ activePermission # NoPermission /\ ~permissionReplyBusy)
             => ENABLED respondPermission(activePermission.id, "once"))
  /\ [][/\ \A t \in ReplyTasks :
            tasks' # tasks
            => /\ busy' = busy
               /\ permissionReplyBusy' = (ReplyTasks' # {})
               /\ ReplyTasks' \in {{}, {[t EXCEPT !.pc = "permissions"]}}
       /\ (ReplyTasks = {} /\ ReplyTasks' # {}) => busy' = busy /\ permissionReplyBusy']_vars

\* A reply has failed while a call of sendPrompt holds busy: the flag is
\* false again, no reply is in flight, and busy is still true.
C36_Witness ==
  /\ busy /\ ~permissionReplyBusy
  /\ ReplyTasks = {}
  /\ UserTasks # {}
  /\ error \in ReplyMessages

----------------------------------------------------------------------------
(* A connection is cancelled while its loop handles events *)

InitCancel == InitOpened("s1") /\ InitHistory

\* The events of this specification: a session is created, a permission is
\* asked for, the todos of s1 change.
CancelEvents ==
  { [type |-> "session.created",
     properties |-> [info |-> [id |-> "s3", title |-> "t1", status |-> "none"]]] }
  \cup { evt \in RefetchEvents : evt.type # "todo.updated" \/ evt.properties.sessionID = "s1" }

NextCancel ==
  \/ disconnect
  \/ \E next \in ClientIds : connectToServer(next)
  \/ \E t \in tasks : ConnectHealthy(t)
  \/ \E t \in tasks : ConnectSessionsResolved(t, ServerSessions)
  \/ \E t \in tasks : ConnectPermissionsResolved(t, <<>>)
  \/ \E t \in tasks : ConnectFailed(t, FetchFailure)
  \/ SubscribeResolved(TRUE)
  \/ \E thrown \in ConnectionFailures \cup {AbortError} : SubscribeRejected(thrown)
  \/ \E thrown \in ConnectionFailures \cup {AbortError} : ReadRejected(thrown)
  \/ \E evt \in CancelEvents : OnSessionEvent(evt)
  \/ \E evt \in CancelEvents : OnPermissionEvent(evt)
  \/ \E evt \in CancelEvents : OnTodoEvent(evt)
  \/ \E list \in AskedLists : LoopPermissionsResolved(list)
  \/ LoopPermissionsFailed
  \/ \E t \in LoopTodos : \E snapshot \in FetchedTodos(t.sessionID) :
       LoopTodoResolved(t, snapshot)
  \/ \E t \in LoopTodos : LoopTodoFailed(t)

SpecCancel == InitCancel /\ [][NextCancel]_vars

\* C31: once the subscription of a connection has been cancelled (its
\* client was replaced or disconnected), no step of its loop, be it a record
\* of its stream or the end of a re-fetch it awaited, changes the sessions,
\* the transcript, the todos or the pending permissions.
C31_CancelledLoopLeavesStore ==
  [][sub.cancelled => UNCHANGED <<sessions, messages, todos, pendingPermissions>>]_vars

----------------------------------------------------------------------------
(* waitForHealthy comes to an end *)

\* Time passes, as far as the clock of the model can still hold the end of
\* the wait that follows the poll in progress.
TickWithinClock ==
  /\ Tick
  /\ (probe # NoProbe /\ probe.pc = "poll") => now' + probe.pollMs <= MaxTime

\* A call with a timeout of 0..MaxTime - 1 units of time, made early enough
\* for the clock of the model to reach the end of its last wait.
NextTimeout ==
  \/ \E timeoutMs \in 0..(MaxTime - 1), pollMs \in 1..2 :
       /\ now + timeoutMs + pollMs <= MaxTime
       /\ waitForHealthy(timeoutMs, pollMs)
  \/ \E result \in HealthResults : HealthResolved(result)
  \/ \E thrown \in HealthRejections : HealthRejected(thrown)
  \/ HealthPollTimer
  \/ TickWithinClock

\* Every call of client.global.health() is answered or rejected, the timer
\* of a wait fires, and time passes.
SpecTimeout ==
  /\ InitHealth
  /\ [][NextTimeout]_vars
  /\ WF_vars(\E result \in HealthResults : HealthResolved(result))
  /\ WF_vars(HealthPollTimer)
  /\ WF_vars(TickWithinClock)

----------------------------------------------------------------------------
(* disconnect while selectSession awaits the server *)

InitDisconnect == InitOpened(Null) /\ InitHistory

\* Every signal that disconnect() resets holds its empty value.
StoreEmpty ==
  /\ sessions = <<>> /\ messages = <<>> /\ todos = <<>> /\ pendingPermissions = <<>>
  /\ sessionStatusById = EmptyMap /\ selectedSessionId = Null

NextDisconnect ==
  \/ \E sessionID \in SessionIds : UserTasks = {} /\ selectSession(sessionID)
  \/ \E t \in UserTasks : \E msgs \in ServerHistories(t.sessionID) : SelectMessagesResolved(t, msgs)
  \/ \E t \in UserTasks : SelectMessagesFailed(t)
  \/ \E t \in UserTasks : \E snapshot \in ServerTodos(t.sessionID) : SelectTodoResolved(t, snapshot)
  \/ \E t \in UserTasks : SelectTodoFailed(t)
  \/ \E t \in UserTasks : \E list \in AskedLists : SelectPermissionsResolved(t, list)
  \/ \E t \in UserTasks : SelectPermissionsFailed(t)
  \/ disconnect
  \/ \E next \in ClientIds : connectToServer(next)
  \/ \E t \in tasks : ConnectHealthy(t)
  \/ \E t \in tasks : ConnectSessionsResolved(t, ServerSessions)
  \/ \E t \in tasks : \E list \in AskedLists : ConnectPermissionsResolved(t, list)
  \/ \E t \in tasks : ConnectFailed(t, FetchFailure)
  \/ SubscribeResolved(TRUE)
  \/ \E thrown \in ConnectionFailures \cup {AbortError} : SubscribeRejected(thrown)
  \/ \E thrown \in ConnectionFailures \cup {AbortError} : ReadRejected(thrown)

SpecDisconnect == InitDisconnect /\ [][NextDisconnect]_vars

\* C34: disconnect() leaves the client null and the store empty (sessions,
\* transcript, todos, pending permissions, session statuses, selected
\* session), and as long as the client stays null the store stays empty, also
\* when a fetch of selectSession that was in flight resolves.
C34_StoreStaysEmptyAfterDisconnect ==
  [][/\ (client # Null /\ client' = Null /\ \A t \in tasks : t.op # "connect")
          => StoreEmpty'
     /\ (client = Null /\ client' = Null /\ StoreEmpty) => StoreEmpty']_vars

----------------------------------------------------------------------------
(* The selection while sessions are deleted and the list is refreshed *)

InitSelection == InitOpened(Null) /\ InitHistory

\* The lists session.list() returns in this specification: both sessions,
\* or s2 alone once s1 has been deleted on the server.
RefreshedSessions == {ServerSessions, Tail(ServerSessions)}

NextSelection ==
  \/ \E sessionID \in SessionIds : UserTasks = {} /\ selectSession(sessionID)
  \/ \E t \in UserTasks : \E msgs \in ServerHistories(t.sessionID) : SelectMessagesResolved(t, msgs)
  \/ \E t \in UserTasks : SelectMessagesFailed(t)
  \/ \E t \in UserTasks : SelectTodoResolved(t, <<>>)
  \/ \E t \in UserTasks : SelectTodoFailed(t)
  \/ \E t \in UserTasks : SelectPermissionsResolved(t, <<>>)
  \/ \E t \in UserTasks : SelectPermissionsFailed(t)
  \/ UserTasks = {} /\ sendPrompt
  \/ \E t \in UserTasks : SendPromptResolved(t)
  \/ \E t \in UserTasks : SendFailed(t, FetchFailure)
  \/ \E t \in UserTasks : \E msgs \in ServerHistories(t.sessionID) : SendMessagesResolved(t, msgs)
  \/ \E t \in UserTasks : SendTodoResolved(t, <<>>)
  \/ \E t \in UserTasks : SendTodoFailed(t)
  \/ \E t \in UserTasks : \E list \in RefreshedSessions : SendSessionsResolved(t, list)
  \/ \E evt \in SessionDeletedEvents : OnSessionDeleted(evt)
  \/ \E evt \in SessionEvents :
       /\ HasField(evt.properties, "info") => evt.properties.info = ServerSessions[1]
       /\ OnSessionEvent(evt)

SpecSelection == InitSelection /\ [][NextSelection]_vars

\* C37: the selected session id is null or the id of a session of the
\* session list.
C37_SelectionIsListed ==
  selectedSessionId # Null => \E i \in 1..Len(sessions) : sessions[i].id = selectedSessionId

----------------------------------------------------------------------------
(* The persisted default model: formatModelRef and parseModelRef.  A model  *)
(* reference has texts as its fields here, and reader holds the preference  *)
(* on its way through localStorage: the model that is written (model), the  *)
(* item as stored (stored) and what onMount parses from it (parsed).        *)

\* localStorage.getItem(...) of a key that was never set.
NullItem == [item |-> "null"]
Item(text) == [text |-> text]

\* text.split(sep): the pieces between the separators, at least one.
splitAt(text, sep) ==
  LET cuts == {i \in 1..Len(text) : text[i] = sep}
      cut(k) == IF k = 0 THEN 0
                ELSE IF k > Cardinality(cuts) THEN Len(text) + 1
                ELSE CHOOSE i \in cuts : Cardinality({j \in cuts : j <= i}) = k
  IN [k \in 1..(Cardinality(cuts) + 1) |-> SubSeq(text, cut(k - 1) + 1, cut(k) - 1)]

\* parts.join(sep)
RECURSIVE join(_, _)
join(parts, sep) ==
  IF parts = <<>> THEN <<>>
  ELSE IF Len(parts) = 1 THEN parts[1]
  ELSE parts[1] \o <<sep>> \o join(Tail(parts), sep)

\* `${model.providerID}/${model.modelID}`
formatModelRef(model) == model.providerID \o <<"/">> \o model.modelID

parseModelRef_FirstTwoParts(raw) ==
  IF raw = NullItem \/ raw.text = <<>> THEN NoModel
  ELSE LET trimmed == trim(raw.text)
           parts == splitAt(trimmed, "/")
       IN IF trimmed = <<>> THEN NoModel
          ELSE IF parts[1] = <<>> \/ Len(parts) = 1 THEN NoModel
          ELSE [providerID |-> parts[1], modelID |-> parts[2]]

\* parseModelRef(raw): null for null, for an empty or blank string, for a
\* string with no "/" and for one that starts with "/"; else the text before
\* the first "/" and the text after it.
parseModelRef(raw) ==
  IF raw = NullItem \/ raw.text = <<>> THEN NoModel
  ELSE LET trimmed == trim(raw.text)
           parts == splitAt(trimmed, "/")
       IN IF trimmed = <<>> THEN NoModel
          ELSE IF parts[1] = <<>> \/ Len(parts) = 1 THEN NoModel
          ELSE [providerID |-> parts[1], modelID |-> join(Tail(parts), "/")]

\* The longest text of a field of a model reference and of a stored item.
MaxRef == 3

\* The texts of this specification: up to MaxRef characters of a letter, the
\* separator and a blank.
RefChars == {"a", "/", " "}
RefTexts == UNION { [1..n -> RefChars] : n \in 0..MaxRef }

\* The default model is persisted: setStorage / localStorage.setItem of
\* formatModelRef(model).
PersistDefaultModel ==
  /\ reader # NoReader /\ reader.model # NoModel /\ reader.stored = NullItem
  /\ reader' = [reader EXCEPT !.stored = Item(formatModelRef(reader.model))]
  /\ UNCHANGED <<app, client, sessVars, selectedSessionId, txVars, permVars, modelVars,
                 uiVars, tasks, probe, connVars, histVars>>

\* onMount: parseModelRef of the stored item; setDefaultModel of what it
\* returns, or of DEFAULT_MODEL when it returns null.
LoadDefaultModel ==
  /\ reader # NoReader /\ reader.parsed = Pending
  /\ reader.model # NoModel => reader.stored # NullItem
  /\ LET parsedDefaultModel == parseModelRef(reader.stored)
     IN /\ reader' = [reader EXCEPT !.parsed = parsedDefaultModel]
        /\ defaultModel' = IF parsedDefaultModel # NoModel THEN parsedDefaultModel
                           ELSE DEFAULT_MODEL
  /\ UNCHANGED <<app, client, sessVars, selectedSessionId, txVars, permVars, pickerVars,
                 sessionModelOverrideById, sessionModelById, uiVars, tasks, probe,
                 connVars, histVars>>

\* A preference is on its way to localStorage, or localStorage holds no
\* item or an item that was not written by formatModelRef.
InitModelRef ==
  /\ app \in Apps
  /\ client = Null
  /\ sessions = <<>>
  /\ sessionStatusById = EmptyMap
  /\ selectedSessionId = Null
  /\ messages = <<>>
  /\ todos = <<>>
  /\ pendingPermissions = <<>>
  /\ now = 0
  /\ defaultModel = DEFAULT_MODEL
  /\ modelPickerTarget = "session"
  /\ modelPickerOpen = FALSE
  /\ sessionModelOverrideById = EmptyMap
  /\ sessionModelById = EmptyMap
  /\ busy = FALSE
  /\ error = Null
  /\ tasks = {}
  /\ probe = NoProbe
  /\ sseConnected = FALSE
  /\ permissionReplyBusy = FALSE
  /\ sub = NoSub
  /\ connectedVersion = Null
  /\ reader \in [model : [providerID : RefTexts, modelID : RefTexts],
                 stored : {NullItem}, parsed : {Pending}]
                \cup [model : {NoModel}, stored : {NullItem} \cup {Item(text) : text \in RefTexts},
                      parsed : {Pending}]
  /\ InitHistory

NextModelRef == PersistDefaultModel \/ LoadDefaultModel

SpecModelRef == InitModelRef /\ [][NextModelRef]_vars

\* The provider is not empty and has no "/", and neither field starts or
\* ends with whitespace.
RoundTrips(model) ==
  /\ model.providerID # <<>>
  /\ \A i \in 1..Len(model.providerID) : model.providerID[i] # "/"
  /\ trim(model.providerID) = model.providerID
  /\ trim(model.modelID) = model.modelID

\* C39: a model reference whose provider is not empty and has no "/" and
\* whose fields have no leading or trailing whitespace is parsed back from
\* its formatted text as it was, "/" in the model id included; no item, a
\* blank text and a text without "/" parse to null, and then the default
\* model is DEFAULT_MODEL, else it is the parsed reference.
C39_ModelRefRoundTrip ==
  (reader # NoReader /\ reader.parsed # Pending)
  => /\ (reader.model # NoModel /\ RoundTrips(reader.model))
          => reader.parsed = reader.model
     /\ (\/ reader.stored = NullItem
         \/ trim(reader.stored.text) = <<>>
         \/ \A i \in 1..Len(reader.stored.text) : reader.stored.text[i] # "/")
          => reader.parsed = NoModel
     /\ IF reader.parsed = NoModel THEN defaultModel = DEFAULT_MODEL
        ELSE defaultModel = reader.parsed

\* A reference whose model id holds a "/" was persisted and parsed back.
C39_Witness ==
  /\ reader # NoReader /\ reader.model # NoModel
  /\ RoundTrips(reader.model)
  /\ \E i \in 1..Len(reader.model.modelID) : reader.model.modelID[i] = "/"
  /\ reader.parsed = reader.model
  /\ defaultModel = reader.model

============================================================================
